---- MODULE Spec2Model ----
(***************************************************************************)
(* OCR invoice insertion: the document mapper with its reference resolver, *)
(* the master-data reconciler, the persistence orchestrator and the        *)
(* invoice processor, as state machines over a relational storage that is  *)
(* reached through one query executor (run_query).                         *)
(*                                                                         *)
(* A persistence run is one call of DatabaseService.insert_complete_invoice*)
(* of src/temp.py (the orchestrator with master data and PO lookup) or of  *)
(* src/services/database.py (the orchestrator without them).  Every        *)
(* "await self.run_query(...)" is one step of the run: between two         *)
(* statements of one run, statements of other runs may execute.            *)
(*                                                                         *)
(* Spec:           the runs execute one after the other; the executor may  *)
(*                 fail a statement.                                       *)
(* SpecConcurrent: runs of src/temp.py interleave at their statements; the *)
(*                 executor fails a statement only for a uniqueness        *)
(*                 constraint.                                             *)
(* SpecProcess:    calls of InvoiceProcessor.process_invoice, one after    *)
(*                 the other.                                              *)
(* SpecBatch:      one call of InvoiceProcessor.process_batch_invoices.    *)
(* SpecResolver:   resolve and clear_cache calls on the resolvers.         *)
(* SpecPoNumber:   one extraction of the po_number of a document.          *)
(* SpecConditions: one mapping of the tax conditions of a document.        *)
(* SpecMapping:    mapping calls, one after the other.                     *)
(* SpecIdGenerator: calls of the identifier generators.                    *)
(* SpecPoType:     one classification of the PO type of a document.        *)
(* SpecHsnCode:    one normalization of an HSN code.                       *)
(* SpecItems:      mappings of the lines' items, each followed by the loop *)
(*                 that ensures them.                                      *)
(***************************************************************************)
EXTENDS Integers, Sequences, FiniteSets, TLC

(***************************************************************************)
(* Bounds of the model.                                                    *)
(***************************************************************************)
MaxRuns == 2            \* persistence runs started in one behaviour
MaxLines == 2           \* invoice lines of one document
NumPoNumbers == 1       \* distinct po_number values in the inputs
NumHsn == 1             \* distinct normalized HSN codes in the inputs
MaxConds == 1           \* tax conditions mapped for one document
NumProcessors == 2      \* mapper + database service pairs
MaxStorageErrors == 1   \* statements the executor fails for other reasons
                        \* than a uniqueness constraint

Runs == 1..MaxRuns
Processors == 1..NumProcessors

(***************************************************************************)
(* Inputs.  A document is reduced to what the orchestration depends on:    *)
(* its po_number (0: neither the header nor the first line has one), the   *)
(* normalized HSN code of every line, and the number of distinct           *)
(* (type, rate) tax pairs with a positive rate.  The supplier and buyer    *)
(* tax ids are the same on every document.                                 *)
(***************************************************************************)
RECURSIVE SeqsUpTo(_, _)
SeqsUpTo(S, n) ==
    IF n = 0 THEN {<<>>}
    ELSE LET shorter == SeqsUpTo(S, n - 1)
         IN  shorter \cup {Append(s, x) : s \in {t \in shorter : Len(t) = n - 1}, x \in S}

HsnCodes == {ToString(h) : h \in 1..NumHsn}

Docs ==
    {d \in [po : 0..NumPoNumbers, lines : SeqsUpTo(HsnCodes, MaxLines), taxes : 0..MaxConds] :
        /\ d.lines # <<>>
        /\ d.po = 0 => d.taxes = 0}

SupplierGstn == "S"
LocationGstn == "B"

(***************************************************************************)
(* Identifiers.  uuid4() returns a value no other call returns; it is      *)
(* modelled by a triple that names the call: the resolver that missed and  *)
(* the number of the miss, or the mapped entity and the mapping call.      *)
(***************************************************************************)
NoId == <<"none", 0, 0>>
EntityId(tag, r, k) == <<tag, r, k>>

(***************************************************************************)
(* ReferenceResolver: a cache from business key to identifier.             *)
(***************************************************************************)
EmptyResolver == [cache |-> <<>>, minted |-> 0]

\* A variant of GetOrCreateRef that calls the generator whether the key is
\* cached or not.
GetOrCreateRefAlwaysNew(m, rs, key) ==
    [cache  |-> (key :> <<"ref", m, rs.minted + 1>>) @@ rs.cache,
     minted |-> rs.minted + 1]

GetOrCreateRef(m, rs, key) ==
    IF key \in DOMAIN rs.cache
    THEN rs
    ELSE [cache  |-> rs.cache @@ (key :> <<"ref", m, rs.minted + 1>>),
          minted |-> rs.minted + 1]

\* The resolver after the resolve calls for keys, made in order.  (The
\* resolver after the first call is bound by a quantifier, so that it is
\* computed once.)
RECURSIVE ResolveAll(_, _, _)
ResolveAll(m, rs, keys) ==
    IF keys = <<>> THEN rs
    ELSE CHOOSE out \in {ResolveAll(m, nxt, Tail(keys)) :
                            nxt \in {GetOrCreateRef(m, rs, Head(keys))}} : TRUE

\* The cache keys of the resolve operations (the f-strings of the resolver).
SupplierKey == <<"supplier", SupplierGstn>>
SupplierSiteKey == <<"site", SupplierGstn>>
LegalEntityKey == <<"legal_entity", LocationGstn>>
LegalEntitySiteKey == <<"site", LocationGstn>>
ItemKey(hsn) == <<"item", hsn>>
CostCenterKey == <<"cost_center", "default">>
ProfitCenterKey == <<"profit_center", "default">>
ProjectKey == <<"project", "default">>
PlantKey == <<"plant", "default">>
GlAccountKey == <<"gl_account", "default">>
TaxRateKey == <<"tax_rate", "GST_0.0">>

(***************************************************************************)
(* IDGenerator's GRN counter, a class attribute: one for all mappers.      *)
(***************************************************************************)
\* A variant of IncrementCounter that returns the counter's value and
\* leaves the counter as it is.
IncrementCounterNoAdvance(counter) == [value |-> counter, counter |-> counter]

\* _increment_counter: return the counter's value, leave the counter one
\* higher.
IncrementCounter(counter) == [value |-> counter, counter |-> counter + 1]

\* generate_grn_number: str(seq) of the value _increment_counter returned;
\* the number stands for its decimal string.
GenerateGrnNumber(counter) == IncrementCounter(counter)

(***************************************************************************)
(* OCRMapper.map_to_database_models.                                       *)
(***************************************************************************)
\* A variant of HasPo that takes every document to have a po_number.
HasPoAlways(doc) == TRUE

\* if po_number: the extracted po_number is true.
HasPo(doc) == doc.po # 0

\* The resolve calls of one mapping, in the order the mapper makes them.
ResolveCalls(doc) ==
    <<SupplierKey, SupplierSiteKey, LegalEntityKey, LegalEntitySiteKey>>
    \o (IF HasPo(doc)
        THEN <<CostCenterKey, ProfitCenterKey, ProjectKey, PlantKey, TaxRateKey>>
        ELSE <<>>)
    \o [k \in 1..Len(doc.lines) |-> ItemKey(doc.lines[k])]
    \o (IF HasPo(doc) /\ Len(doc.lines) > 0 THEN <<>> ELSE <<ProjectKey>>)
    \o <<GlAccountKey>>

\* first_po_line_ref: the id of PO line 1 if PO lines were built, else the
\* placeholder project reference.
FirstPoLineRef(doc, r, cache) ==
    IF HasPo(doc) /\ Len(doc.lines) > 0
    THEN EntityId("po_line", r, 1)
    ELSE cache[ProjectKey]

\* The resolver of mapper m after one mapping of doc.
ResolverAfterMapping(m, rs, doc) == ResolveAll(m, rs, ResolveCalls(doc))

\* A variant of ItemInfoIndex that gives every GRN line the item of the
\* first line.
ItemInfoIndexFirst(idx) == 1

\* item_info[idx-1]: the item of the GRN line numbered idx from 1.
ItemInfoIndex(idx) == idx

\* The entities built with the resolver rs2 the mapping's resolve calls
\* left: r names the mapping call (it makes the uuid4 defaults of the
\* entities' id fields distinct), grnNumber is the value generate_grn_number
\* returned.
MappedEntities(rs2, doc, r, grnNumber) ==
    LET ref(key) == rs2.cache[key]
        poId == EntityId("po_header", r, 0)
        grnId == EntityId("grn_header", r, 0)
    IN  [has_po |-> HasPo(doc),
         po_header |->
            IF HasPo(doc)
            THEN [id |-> poId,
                  s_po_number |-> doc.po,
                  s_supplier_ref |-> ref(SupplierKey),
                  s_supplier_site_ref |-> ref(SupplierSiteKey),
                  s_legal_entity_ref |-> ref(LegalEntityKey),
                  s_legal_entity_site_ref |-> ref(LegalEntitySiteKey),
                  s_cost_center_ref |-> ref(CostCenterKey),
                  s_profit_center_ref |-> ref(ProfitCenterKey),
                  s_project_ref |-> ref(ProjectKey),
                  s_plant_ref |-> ref(PlantKey),
                  s_tax_rate_ref |-> ref(TaxRateKey)]
            ELSE [id |-> NoId],
         po_lines |->
            IF HasPo(doc)
            THEN [k \in 1..Len(doc.lines) |->
                    [id |-> EntityId("po_line", r, k),
                     s_po_header_ref |-> poId,
                     s_line_number |-> k * 10,
                     s_item_ref |-> ref(ItemKey(doc.lines[k]))]]
            ELSE <<>>,
         po_conditions |->
            IF HasPo(doc)
            THEN [k \in 1..doc.taxes |->
                    [id |-> EntityId("po_condition", r, k), s_po_header_ref |-> poId]]
            ELSE <<>>,
         grn_header |->
            [id |-> grnId,
             s_grn_number |-> grnNumber,
             s_supplier_site_ref |-> ref(SupplierSiteKey),
             s_legal_entity_site_ref |-> ref(LegalEntitySiteKey),
             s_po_line_ref |-> FirstPoLineRef(doc, r, rs2.cache),
             s_gl_account_ref |-> ref(GlAccountKey)],
         grn_lines |->
            [k \in 1..Len(doc.lines) |->
                [id |-> EntityId("grn_line", r, k),
                 s_grn_ref |-> grnId,
                 s_item_ref |-> ref(ItemKey(doc.lines[ItemInfoIndex(k)]))]],
         supplier_info |->
            [supplier_ref |-> ref(SupplierKey),
             supplier_gstn |-> SupplierGstn,
             supplier_site_ref |-> ref(SupplierSiteKey)],
         buyer_info |->
            [legal_entity_ref |-> ref(LegalEntityKey),
             legal_entity_site_ref |-> ref(LegalEntitySiteKey),
             location_gstn |-> LocationGstn],
         item_info |->
            [k \in 1..Len(doc.lines) |->
                [item_ref |-> ref(ItemKey(doc.lines[k])), hsn_code |-> doc.lines[k]]]]

\* The entities of one mapping.  (The resolver after the resolve calls is
\* bound by a quantifier, so that it is computed once.)
MapToDatabaseModels(m, rs, doc, r, grnNumber) ==
    CHOOSE e \in {MappedEntities(rs2, doc, r, grnNumber) :
                    rs2 \in {ResolverAfterMapping(m, rs, doc)}} : TRUE

(***************************************************************************)
(* State.                                                                  *)
(***************************************************************************)
VARIABLES
    db,              \* storage: the rows of every table
    poNumberUnique,  \* whether the schema has a uniqueness constraint on
                     \* s_po_number: "yes" or "no", and "undecided" as long as
                     \* no statement has depended on it
    resolver,        \* per processor: the ReferenceResolver of its mapper
    inserted_refs,   \* per processor: MasterDataService._inserted_refs
    grnCounter,      \* IDGenerator._grn_counter, as the offset from its seed
    pc,              \* per run: the statement the run is about to issue
    proc,            \* per run: the processor whose mapper and service it uses
    service,         \* per run: the module of the DatabaseService it calls
    response,        \* per run: what process_invoice returned to its caller
    doc,             \* per run: the document
    ents,            \* per run: the mapped entities (mutable objects)
    results,         \* per run: the results dictionary
    ensured,         \* per run: <<kind, id>> of every ensure call that returned
    raised,          \* per run: an exception left the call of the run's caller
    errorsInjected,  \* statements failed so far for non-constraint reasons
    batch,           \* the process_batch_invoices call: its list, loop and results
    calls            \* the calls of pure functions made so far, with what
                     \* each returned

vars == <<db, poNumberUnique, resolver, inserted_refs, grnCounter, pc, proc, service,
          response, doc, ents, results, ensured, raised, errorsInjected, batch, calls>>

MasterKinds ==
    {"supplier", "supplier_site", "legal_entity", "legal_entity_site", "item",
     "cost_center", "profit_center", "project", "plant", "tax_rate", "gl_account"}

At(a) == [at |-> a, i |-> 0]
AtI(a, i) == [at |-> a, i |-> i]

Active(r) == pc[r].at \notin {"idle", "done", "failed", "returned"}

NoDoc == [po |-> 0, lines |-> <<>>, taxes |-> 0]
NoEnts == [has_po |-> FALSE]
NoResults == [success |-> FALSE, errors |-> <<>>]
NoResponse == [status |-> "none"]

\* The two DatabaseService classes: src/temp.py ensures the master data and
\* looks the PO up, src/services/database.py does neither.
ServiceModules == {"temp", "services.database"}

\* No process_batch_invoices call is made.
NoBatch == [invoice_list |-> <<>>, at |-> "none"]

InitProgram ==
    /\ db = [master |-> [k \in MasterKinds |-> {}],
             po_header |-> {}, po_line |-> {}, po_condition |-> {},
             grn_header |-> {}, grn_line |-> {}]
    /\ poNumberUnique = "undecided"
    /\ resolver = [p \in Processors |-> EmptyResolver]
    /\ inserted_refs = [p \in Processors |-> <<>>]
    /\ grnCounter = 0
    /\ pc = [r \in Runs |-> At("idle")]
    /\ proc = [r \in Runs |-> 1]
    /\ service = [r \in Runs |-> "temp"]
    /\ response = [r \in Runs |-> NoResponse]
    /\ doc = [r \in Runs |-> NoDoc]
    /\ ents = [r \in Runs |-> NoEnts]
    /\ results = [r \in Runs |-> NoResults]
    /\ ensured = [r \in Runs |-> {}]
    /\ raised = [r \in Runs |-> FALSE]
    /\ errorsInjected = 0

Init ==
    /\ InitProgram
    /\ batch = NoBatch
    /\ calls = <<>>

(***************************************************************************)
(* insert_complete_invoice, master data phase.                             *)
(***************************************************************************)
\* A variant of EnsureOrder that ensures the GL account before the master
\* data of the PO.
EnsureOrderGlAccountFirst(has_po) ==
    <<"supplier", "supplier_site", "legal_entity", "legal_entity_site", "item",
      "gl_account">>
    \o (IF has_po
        THEN <<"cost_center", "profit_center", "project", "plant", "tax_rate">>
        ELSE <<>>)

\* The kinds of master data in the order their ensure calls are made; "item"
\* stands for one call per line.
EnsureOrder(has_po) ==
    <<"supplier", "supplier_site", "legal_entity", "legal_entity_site", "item">>
    \o (IF has_po
        THEN <<"cost_center", "profit_center", "project", "plant", "tax_rate">>
        ELSE <<>>)
    \o <<"gl_account">>

\* The arguments of the ensure calls of one kind: the reference, and the
\* business columns the inserted row is built from.
EnsureArgs(e, kind) ==
    CASE kind = "supplier" ->
            <<[kind |-> kind, ref |-> e.supplier_info.supplier_ref,
               key |-> e.supplier_info.supplier_gstn]>>
      [] kind = "supplier_site" ->
            <<[kind |-> kind, ref |-> e.supplier_info.supplier_site_ref,
               key |-> e.supplier_info.supplier_gstn]>>
      [] kind = "legal_entity" ->
            <<[kind |-> kind, ref |-> e.buyer_info.legal_entity_ref,
               key |-> e.buyer_info.location_gstn]>>
      [] kind = "legal_entity_site" ->
            <<[kind |-> kind, ref |-> e.buyer_info.legal_entity_site_ref,
               key |-> e.buyer_info.location_gstn]>>
      [] kind = "item" ->
            [k \in 1..Len(e.item_info) |->
                [kind |-> kind, ref |-> e.item_info[k].item_ref,
                 key |-> e.item_info[k].hsn_code]]
      [] kind = "cost_center" ->
            <<[kind |-> kind, ref |-> e.po_header.s_cost_center_ref, key |-> "default"]>>
      [] kind = "profit_center" ->
            <<[kind |-> kind, ref |-> e.po_header.s_profit_center_ref, key |-> "default"]>>
      [] kind = "project" ->
            <<[kind |-> kind, ref |-> e.po_header.s_project_ref, key |-> "default"]>>
      [] kind = "plant" ->
            <<[kind |-> kind, ref |-> e.po_header.s_plant_ref, key |-> "default"]>>
      [] kind = "tax_rate" ->
            <<[kind |-> kind, ref |-> e.po_header.s_tax_rate_ref, key |-> "default"]>>
      [] kind = "gl_account" ->
            <<[kind |-> kind, ref |-> e.grn_header.s_gl_account_ref, key |-> "default"]>>

RECURSIVE EnsureOpsFrom(_, _)
EnsureOpsFrom(e, kinds) ==
    IF kinds = <<>> THEN <<>>
    ELSE EnsureArgs(e, Head(kinds)) \o EnsureOpsFrom(e, Tail(kinds))

\* Every ensure call of one run, in order.
EnsureOps(e) == EnsureOpsFrom(e, EnsureOrder(e.has_po))

CacheKey(op) == <<op.kind, op.ref>>

\* A variant of AfterEnsureEnts that assigns the identifier ensure_tax_rate
\* returned to the PO header's plant reference.
AfterEnsureEntsPlantRef(e, op, ret) ==
    IF op.kind = "tax_rate"
    THEN [e EXCEPT !.po_header.s_plant_ref = ret]
    ELSE e

\* The entities after an ensure call returned ret: the PO header's tax rate
\* reference is overwritten with the returned identifier.
AfterEnsureEnts(e, op, ret) ==
    IF op.kind = "tax_rate"
    THEN [e EXCEPT !.po_header.s_tax_rate_ref = ret]
    ELSE e

\* A variant of EnsureFrom in which an ensure call queries storage whether
\* its key is in _inserted_refs or not.
EnsureFromNoCache(e, i, cache, done) ==
    IF i > Len(EnsureOps(e))
    THEN [pc |-> IF e.has_po THEN At("po_lookup") ELSE At("grn_header"),
          ents |-> e, ensured |-> done]
    ELSE [pc |-> AtI("ensure_check", i), ents |-> e, ensured |-> done]

RECURSIVE EnsureFrom(_, _, _, _)
\* The run is about to make its i-th ensure call, with cache the processor's
\* _inserted_refs and done the references ensured so far.  A call whose key
\* is cached returns the cached value without a statement, and the next call
\* follows at once; the run stops at the first call that has to query, or
\* past the last call at the first statement of the transactional phase.
EnsureFrom(e, i, cache, done) ==
    IF i > Len(EnsureOps(e))
    THEN [pc |-> IF e.has_po THEN At("po_lookup") ELSE At("grn_header"),
          ents |-> e, ensured |-> done]
    ELSE LET op == EnsureOps(e)[i]
         IN  IF CacheKey(op) \in DOMAIN cache
             THEN EnsureFrom(AfterEnsureEnts(e, op, cache[CacheKey(op)]), i + 1, cache,
                             done \cup {<<op.kind, cache[CacheKey(op)]>>})
             ELSE [pc |-> AtI("ensure_check", i), ents |-> e, ensured |-> done]

\* The i-th ensure call of run r returns ret, having cached it under its key.
EnsureReturns(r, i, ret) ==
    LET op == EnsureOps(ents[r])[i]
        cache == (CacheKey(op) :> ret) @@ inserted_refs[proc[r]]
        nxt == EnsureFrom(AfterEnsureEnts(ents[r], op, ret), i + 1, cache,
                          ensured[r] \cup {<<op.kind, ret>>})
    IN  /\ inserted_refs' = [inserted_refs EXCEPT ![proc[r]] = cache]
        /\ ensured' = [ensured EXCEPT ![r] = nxt.ensured]
        /\ ents' = [ents EXCEPT ![r] = nxt.ents]
        /\ pc' = [pc EXCEPT ![r] = nxt.pc]

Entry(op, tbl, i, out) == [op |-> op, tbl |-> tbl, i |-> i, out |-> out]

\* A variant of ExceptionOutcome that records the error and returns the
\* results instead of re-raising.
ExceptionOutcomeNoReraise(res, msg) ==
    [results |-> [res EXCEPT !.errors = Append(@, msg)],
     raised  |-> FALSE,
     pc      |-> At("failed")]

\* The except clause of insert_complete_invoice: record the error text and
\* re-raise.
ExceptionOutcome(res, msg) ==
    [results |-> [res EXCEPT !.errors = Append(@, msg)],
     raised  |-> TRUE,
     pc      |-> At("failed")]

\* Run r's statement (op on tbl) failed with kind out, and nothing between
\* the statement and the except clause of insert_complete_invoice catches it.
Raise(r, op, tbl, i, out) ==
    LET o == ExceptionOutcome(results[r], Entry(op, tbl, i, out))
    IN  /\ results' = [results EXCEPT ![r] = o.results]
        /\ raised' = [raised EXCEPT ![r] = o.raised]
        /\ pc' = [pc EXCEPT ![r] = o.pc]

CanInject == errorsInjected < MaxStorageErrors

\* Where a run of module m's insert_complete_invoice on the entities e is
\* when it reaches its first statement, cache being the _inserted_refs of its
\* master data service.
FirstStatement(m, e, cache) ==
    IF m = "temp"
    THEN EnsureFrom(e, 1, cache, {})
    ELSE [pc |-> IF e.has_po THEN At("po_header") ELSE At("grn_header"),
          ents |-> e, ensured |-> {}]

\* The results dictionary at the start of a run.
InitialResults(e) ==
    [po_header_id |-> NoId,
     po_lines_count |-> 0,
     po_conditions_count |-> 0,
     grn_header_id |-> e.grn_header.id,
     grn_lines_count |-> 0,
     success |-> FALSE,
     errors |-> <<>>,
     po_exists |-> "unset"]

\* Calls are numbered in the order they are made, and processors in the
\* order they are first used.
NextCall(r, p) ==
    /\ pc[r].at = "idle"
    /\ \A q \in Runs : q < r => pc[q].at # "idle"
    /\ \A q \in Processors : q < p => \E o \in Runs : pc[o].at # "idle" /\ proc[o] = q

\* The caller maps document d with the mapper of processor p and calls
\* insert_complete_invoice of module m: the run is at its first statement.
Start(r, d, p, m) ==
    /\ NextCall(r, p)
    /\ LET e == MapToDatabaseModels(p, resolver[p], d, r, GenerateGrnNumber(grnCounter).value)
           nxt == FirstStatement(m, e, inserted_refs[p])
       IN  /\ ents' = [ents EXCEPT ![r] = nxt.ents]
           /\ ensured' = [ensured EXCEPT ![r] = nxt.ensured]
           /\ pc' = [pc EXCEPT ![r] = nxt.pc]
           /\ results' = [results EXCEPT ![r] = InitialResults(e)]
    /\ resolver' = [resolver EXCEPT ![p] = ResolverAfterMapping(p, resolver[p], d)]
    /\ grnCounter' = GenerateGrnNumber(grnCounter).counter
    /\ doc' = [doc EXCEPT ![r] = d]
    /\ proc' = [proc EXCEPT ![r] = p]
    /\ service' = [service EXCEPT ![r] = m]
    /\ UNCHANGED <<db, poNumberUnique, inserted_refs, response, raised, errorsInjected>>
    /\ UNCHANGED <<batch, calls>>

\* The same call, made when no other run is in flight.
StartSerial(r, d, p, m) ==
    /\ \A q \in Runs : ~Active(q)
    /\ Start(r, d, p, m)

\* ensure_X: SELECT id FROM s_X WHERE id = ref.  A row: cache its id and
\* return it.  No row: go on to the insert.
EnsureCheck(r) ==
    /\ pc[r].at = "ensure_check"
    /\ LET op == EnsureOps(ents[r])[pc[r].i]
           rows == {row \in db.master[op.kind] : row.id = op.ref}
       IN  IF rows # {}
              THEN \E row \in rows : EnsureReturns(r, pc[r].i, row.id)
              ELSE /\ pc' = [pc EXCEPT ![r] = AtI("ensure_insert", pc[r].i)]
                   /\ UNCHANGED <<inserted_refs, ensured, ents>>
    /\ UNCHANGED <<db, poNumberUnique, resolver, grnCounter, proc, service, response, doc, results, raised,
                   errorsInjected>>
    /\ UNCHANGED <<batch, calls>>

\* ensure_X: INSERT INTO s_X, the primary key being free.  For the two site
\* tables the country and state lookups that precede the insert are part of
\* this step: they read tables no run writes.
EnsureInsert(r) ==
    /\ pc[r].at = "ensure_insert"
    /\ LET op == EnsureOps(ents[r])[pc[r].i]
       IN  /\ \A row \in db.master[op.kind] : row.id # op.ref
           /\ db' = [db EXCEPT !.master[op.kind] = @ \cup {[id |-> op.ref, key |-> op.key]}]
           /\ EnsureReturns(r, pc[r].i, op.ref)
    /\ UNCHANGED <<poNumberUnique, resolver, grnCounter, proc, service, response, doc, results, raised,
                   errorsInjected>>
    /\ UNCHANGED <<batch, calls>>

\* ensure_X: the INSERT violates the primary key, because another caller
\* inserted the row after this run's check.  No ensure method has an except
\* clause: the error leaves ensure_X and reaches insert_complete_invoice's.
EnsureInsertUniqueViolation(r) ==
    /\ pc[r].at = "ensure_insert"
    /\ LET op == EnsureOps(ents[r])[pc[r].i]
       IN  /\ \E row \in db.master[op.kind] : row.id = op.ref
           /\ Raise(r, "insert", op.kind, pc[r].i, "unique")
    /\ UNCHANGED <<db, poNumberUnique, resolver, inserted_refs, grnCounter, proc, service, response, doc,
                   ents, ensured, errorsInjected>>
    /\ UNCHANGED <<batch, calls>>

\* A statement of an ensure call fails for another reason.
EnsureStorageError(r) ==
    /\ pc[r].at \in {"ensure_check", "ensure_insert"}
    /\ CanInject
    /\ LET op == EnsureOps(ents[r])[pc[r].i]
       IN  Raise(r, IF pc[r].at = "ensure_check" THEN "check" ELSE "insert",
                 op.kind, pc[r].i, "error")
    /\ errorsInjected' = errorsInjected + 1
    /\ UNCHANGED <<db, poNumberUnique, resolver, inserted_refs, grnCounter, proc, service, response, doc,
                   ents, ensured>>
    /\ UNCHANGED <<batch, calls>>

(***************************************************************************)
(* insert_complete_invoice, transactional phase.                           *)
(***************************************************************************)
PoHeadersOf(poNumber) == {row \in db.po_header : row.s_po_number = poNumber}
PoLinesOf(headerId) == {row \in db.po_line : row.s_po_header_ref = headerId}

\* ORDER BY s_line_number ASC LIMIT 1.
FirstByLineNumber(rows) ==
    CHOOSE row \in rows : \A other \in rows : row.s_line_number <= other.s_line_number

\* Where a run that inserts a new PO goes after the PO header, after its
\* k-th PO line and after its k-th PO condition (k = 0: before the first).
AfterPoLines(e, k) ==
    IF k < Len(e.po_lines) THEN AtI("po_line", k + 1)
    ELSE IF Len(e.po_conditions) > 0 THEN AtI("po_condition", 1)
    ELSE At("grn_header")

AfterPoConditions(e, k) ==
    IF k < Len(e.po_conditions) THEN AtI("po_condition", k + 1)
    ELSE At("grn_header")

\* A variant of AfterGrnLines that leaves the loop after the first GRN line.
AfterGrnLinesFirstOnly(e, k) ==
    IF k < Len(e.grn_lines) /\ k < 1 THEN AtI("grn_line", k + 1)
    ELSE At("done")

AfterGrnLines(e, k) ==
    IF k < Len(e.grn_lines) THEN AtI("grn_line", k + 1)
    ELSE At("done")

\* In src/temp.py results["po_exists"] = False is the last statement of the
\* new-PO branch; src/services/database.py has no such key.
LeavingPoBranch(m, res, next) ==
    IF m = "temp" /\ next.at = "grn_header"
    THEN [res EXCEPT !.po_exists = "false"]
    ELSE res

\* _check_po_exists: SELECT id FROM s_po_header WHERE s_po_number = ... LIMIT 1.
CheckPoExists(r) ==
    /\ pc[r].at = "po_lookup"
    /\ LET rows == PoHeadersOf(ents[r].po_header.s_po_number)
       IN  IF rows # {}
           THEN \E row \in rows :
                   /\ results' = [results EXCEPT ![r].po_header_id = row.id,
                                                 ![r].po_exists = "true"]
                   /\ pc' = [pc EXCEPT ![r] = At("po_first_line")]
           ELSE /\ pc' = [pc EXCEPT ![r] = At("po_header")]
                /\ UNCHANGED results
    /\ UNCHANGED <<db, poNumberUnique, resolver, inserted_refs, grnCounter, proc, service, response, doc,
                   ents, ensured, raised, errorsInjected>>
    /\ UNCHANGED <<batch, calls>>

\* A variant of CheckPoExistsError in which _check_po_exists lets the
\* executor's error through to insert_complete_invoice.
CheckPoExistsErrorRaises(r) ==
    /\ pc[r].at = "po_lookup"
    /\ CanInject
    /\ errorsInjected' = errorsInjected + 1
    /\ Raise(r, "check", "po_header", 0, "error")
    /\ UNCHANGED <<db, poNumberUnique, resolver, inserted_refs, grnCounter, proc, service, response, doc,
                   ents, ensured>>
    /\ UNCHANGED <<batch, calls>>

\* _check_po_exists catches the executor's error and returns None: the run
\* goes on as for a PO that is not stored.
CheckPoExistsError(r) ==
    /\ pc[r].at = "po_lookup"
    /\ CanInject
    /\ errorsInjected' = errorsInjected + 1
    /\ pc' = [pc EXCEPT ![r] = At("po_header")]
    /\ UNCHANGED <<db, poNumberUnique, resolver, inserted_refs, grnCounter, proc, service, response, doc,
                   ents, results, ensured, raised>>
    /\ UNCHANGED <<batch, calls>>

\* _get_first_po_line of the existing PO: its row replaces the GRN header's
\* s_po_line_ref; no row leaves the mapped value.
GetFirstPoLine(r) ==
    /\ pc[r].at = "po_first_line"
    /\ LET rows == PoLinesOf(results[r].po_header_id)
       IN  ents' = [ents EXCEPT ![r].grn_header.s_po_line_ref =
                        IF rows # {} THEN FirstByLineNumber(rows).id ELSE @]
    /\ pc' = [pc EXCEPT ![r] = At("grn_header")]
    /\ UNCHANGED <<db, poNumberUnique, resolver, inserted_refs, grnCounter, proc, service, response, doc,
                   results, ensured, raised, errorsInjected>>
    /\ UNCHANGED <<batch, calls>>

\* _get_first_po_line catches the executor's error and returns None.
GetFirstPoLineError(r) ==
    /\ pc[r].at = "po_first_line"
    /\ CanInject
    /\ errorsInjected' = errorsInjected + 1
    /\ pc' = [pc EXCEPT ![r] = At("grn_header")]
    /\ UNCHANGED <<db, poNumberUnique, resolver, inserted_refs, grnCounter, proc, service, response, doc,
                   ents, results, ensured, raised>>
    /\ UNCHANGED <<batch, calls>>

\* _insert_po_header, in a schema that accepts the row: no header with this
\* s_po_number is stored, or s_po_number carries no uniqueness constraint.
InsertPoHeader(r) ==
    /\ pc[r].at = "po_header"
    /\ IF PoHeadersOf(ents[r].po_header.s_po_number) = {}
       THEN UNCHANGED poNumberUnique
       ELSE /\ poNumberUnique \in {"undecided", "no"}
            /\ poNumberUnique' = "no"
    /\ db' = [db EXCEPT !.po_header = @ \cup {ents[r].po_header}]
    /\ LET next == AfterPoLines(ents[r], 0)
       IN  /\ results' = [results EXCEPT ![r] =
                            LeavingPoBranch(service[r], [@ EXCEPT !.po_header_id = ents[r].po_header.id], next)]
           /\ pc' = [pc EXCEPT ![r] = next]
    /\ UNCHANGED <<resolver, inserted_refs, grnCounter, proc, service, response, doc, ents,
                   ensured, raised, errorsInjected>>
    /\ UNCHANGED <<batch, calls>>

\* _insert_po_header, in a schema with a uniqueness constraint on
\* s_po_number and a header with this number stored: the method logs the
\* violation and re-raises it.
InsertPoHeaderUniqueViolation(r) ==
    /\ pc[r].at = "po_header"
    /\ PoHeadersOf(ents[r].po_header.s_po_number) # {}
    /\ poNumberUnique \in {"undecided", "yes"}
    /\ poNumberUnique' = "yes"
    /\ Raise(r, "insert", "po_header", 0, "unique")
    /\ UNCHANGED <<db, resolver, inserted_refs, grnCounter, proc, service, response, doc,
                   ents, ensured, errorsInjected>>
    /\ UNCHANGED <<batch, calls>>

\* _insert_po_line.
InsertPoLine(r) ==
    /\ pc[r].at = "po_line"
    /\ db' = [db EXCEPT !.po_line = @ \cup {ents[r].po_lines[pc[r].i]}]
    /\ LET next == AfterPoLines(ents[r], pc[r].i)
       IN  /\ results' = [results EXCEPT ![r] =
                            LeavingPoBranch(service[r], [@ EXCEPT !.po_lines_count = @ + 1], next)]
           /\ pc' = [pc EXCEPT ![r] = next]
    /\ UNCHANGED <<poNumberUnique, resolver, inserted_refs, grnCounter, proc, service, response, doc, ents,
                   ensured, raised, errorsInjected>>
    /\ UNCHANGED <<batch, calls>>

\* _insert_po_condition.
InsertPoCondition(r) ==
    /\ pc[r].at = "po_condition"
    /\ db' = [db EXCEPT !.po_condition = @ \cup {ents[r].po_conditions[pc[r].i]}]
    /\ LET next == AfterPoConditions(ents[r], pc[r].i)
       IN  /\ results' = [results EXCEPT ![r] =
                            LeavingPoBranch(service[r], [@ EXCEPT !.po_conditions_count = @ + 1], next)]
           /\ pc' = [pc EXCEPT ![r] = next]
    /\ UNCHANGED <<poNumberUnique, resolver, inserted_refs, grnCounter, proc, service, response, doc, ents,
                   ensured, raised, errorsInjected>>
    /\ UNCHANGED <<batch, calls>>

\* _insert_grn_header.
InsertGrnHeader(r) ==
    /\ pc[r].at = "grn_header"
    /\ db' = [db EXCEPT !.grn_header = @ \cup {ents[r].grn_header}]
    /\ LET next == AfterGrnLines(ents[r], 0)
       IN  /\ results' = [results EXCEPT ![r].success = (next.at = "done")]
           /\ pc' = [pc EXCEPT ![r] = next]
    /\ UNCHANGED <<poNumberUnique, resolver, inserted_refs, grnCounter, proc, service, response, doc, ents,
                   ensured, raised, errorsInjected>>
    /\ UNCHANGED <<batch, calls>>

\* _insert_grn_line; after the last one results["success"] = True and the
\* results are returned.
InsertGrnLine(r) ==
    /\ pc[r].at = "grn_line"
    /\ db' = [db EXCEPT !.grn_line = @ \cup {ents[r].grn_lines[pc[r].i]}]
    /\ LET next == AfterGrnLines(ents[r], pc[r].i)
       IN  /\ results' = [results EXCEPT ![r].grn_lines_count = @ + 1,
                                         ![r].success = (next.at = "done")]
           /\ pc' = [pc EXCEPT ![r] = next]
    /\ UNCHANGED <<poNumberUnique, resolver, inserted_refs, grnCounter, proc, service, response, doc, ents,
                   ensured, raised, errorsInjected>>
    /\ UNCHANGED <<batch, calls>>

\* An insert of the transactional phase fails for another reason than a
\* uniqueness constraint: the _insert_ method re-raises.
InsertStorageError(r) ==
    /\ pc[r].at \in {"po_header", "po_line", "po_condition", "grn_header", "grn_line"}
    /\ CanInject
    /\ errorsInjected' = errorsInjected + 1
    /\ Raise(r, "insert", pc[r].at, pc[r].i, "error")
    /\ UNCHANGED <<db, poNumberUnique, resolver, inserted_refs, grnCounter, proc, service, response, doc,
                   ents, ensured>>
    /\ UNCHANGED <<batch, calls>>

\* The runs of one caller after another; any statement may fail.
Next ==
    \/ \E r \in Runs, d \in Docs, p \in Processors, m \in ServiceModules :
            StartSerial(r, d, p, m)
    \/ \E r \in Runs : EnsureCheck(r)
    \/ \E r \in Runs : EnsureInsert(r)
    \/ \E r \in Runs : EnsureStorageError(r)
    \/ \E r \in Runs : CheckPoExists(r)
    \/ \E r \in Runs : CheckPoExistsError(r)
    \/ \E r \in Runs : GetFirstPoLine(r)
    \/ \E r \in Runs : GetFirstPoLineError(r)
    \/ \E r \in Runs : InsertPoHeader(r)
    \/ \E r \in Runs : InsertPoHeaderUniqueViolation(r)
    \/ \E r \in Runs : InsertPoLine(r)
    \/ \E r \in Runs : InsertPoCondition(r)
    \/ \E r \in Runs : InsertGrnHeader(r)
    \/ \E r \in Runs : InsertGrnLine(r)
    \/ \E r \in Runs : InsertStorageError(r)

Spec == Init /\ [][Next]_vars

\* Runs of concurrent callers, interleaved at their statements; a statement
\* fails only if it violates a uniqueness constraint.
NextConcurrent ==
    \/ \E r \in Runs, d \in Docs, p \in Processors : Start(r, d, p, "temp")
    \/ \E r \in Runs : EnsureCheck(r)
    \/ \E r \in Runs : EnsureInsert(r)
    \/ \E r \in Runs : EnsureInsertUniqueViolation(r)
    \/ \E r \in Runs : CheckPoExists(r)
    \/ \E r \in Runs : GetFirstPoLine(r)
    \/ \E r \in Runs : InsertPoHeader(r)
    \/ \E r \in Runs : InsertPoHeaderUniqueViolation(r)
    \/ \E r \in Runs : InsertPoLine(r)
    \/ \E r \in Runs : InsertPoCondition(r)
    \/ \E r \in Runs : InsertGrnHeader(r)
    \/ \E r \in Runs : InsertGrnLine(r)

SpecConcurrent == Init /\ [][NextConcurrent]_vars

(***************************************************************************)
(* InvoiceProcessor.process_invoice.                                       *)
(***************************************************************************)
\* The raw input is reduced to whether it has the two fields OCRInput
\* requires, and to the document it carries if it has.
InputShapes == {"ok", "no_dynamic", "no_static"}

Inputs ==
    {[shape |-> "ok", doc |-> d] : d \in Docs}
    \cup {[shape |-> sh, doc |-> NoDoc] : sh \in InputShapes \ {"ok"}}

\* A variant of ValidateInput that accepts every payload.
ValidateInputAcceptAll(input) == "ok"

\* _validate_input: OCRInput(**ocr_data) raises ValidationError for a missing
\* field.
ValidateInput(input) == IF input.shape = "ok" THEN "ok" ELSE "ValidationError"

\* The tuple map_to_database_models returns.
MappedTuple(e) ==
    <<e.po_header, e.po_lines, e.po_conditions, e.grn_header, e.grn_lines,
      e.supplier_info, e.buyer_info, e.item_info>>

\* The number of names process_invoice unpacks the mapper's tuple into.
UnpackTargets == 5

\* A tuple assignment raises ValueError unless the lengths agree.
Unpack(t, n) == IF Len(t) = n THEN "ok" ELSE "ValueError"

\* A variant of ProcessInvoiceExcept whose second clause re-raises.
ProcessInvoiceExceptReraise(error, detail) ==
    IF error = "ValidationError"
    THEN [response |-> [status |-> "failed",
                        message |-> "Invalid OCR data format",
                        errors |-> <<[error |-> error, detail |-> detail]>>],
          raised |-> FALSE]
    ELSE [response |-> NoResponse, raised |-> TRUE]

\* The two except clauses of process_invoice: both return a response, none
\* re-raises.
ProcessInvoiceExcept(error, detail) ==
    [response |-> [status |-> "failed",
                   message |-> IF error = "ValidationError"
                               THEN "Invalid OCR data format"
                               ELSE "Error processing invoice",
                   errors |-> <<[error |-> error, detail |-> detail]>>],
     raised |-> FALSE]

\* process_invoice up to its first await.  Validation and mapping issue no
\* statement, and neither does the unpacking of the mapper's tuple, so an
\* exception in one of them makes the call return within this step.  Past
\* the unpacking the call is at the first statement of
\* insert_complete_invoice of src/services/database.py.
ProcessInvoice(r, input, p) ==
    /\ NextCall(r, p)
    /\ proc' = [proc EXCEPT ![r] = p]
    /\ service' = [service EXCEPT ![r] = "services.database"]
    /\ doc' = [doc EXCEPT ![r] = input.doc]
    /\ IF ValidateInput(input) # "ok"
       THEN LET out == ProcessInvoiceExcept(ValidateInput(input), input.shape)
            IN  /\ response' = [response EXCEPT ![r] = out.response]
                /\ raised' = [raised EXCEPT ![r] = out.raised]
                /\ pc' = [pc EXCEPT ![r] = At("returned")]
                /\ UNCHANGED <<resolver, grnCounter, ents, results, ensured>>
       ELSE LET e == MapToDatabaseModels(p, resolver[p], input.doc, r, GenerateGrnNumber(grnCounter).value)
                unpacked == Unpack(MappedTuple(e), UnpackTargets)
            IN  /\ resolver' = [resolver EXCEPT ![p] =
                                  ResolverAfterMapping(p, resolver[p], input.doc)]
                /\ grnCounter' = GenerateGrnNumber(grnCounter).counter
                /\ IF unpacked # "ok"
                   THEN LET out == ProcessInvoiceExcept(unpacked, UnpackTargets)
                        IN  /\ response' = [response EXCEPT ![r] = out.response]
                            /\ raised' = [raised EXCEPT ![r] = out.raised]
                            /\ pc' = [pc EXCEPT ![r] = At("returned")]
                            /\ UNCHANGED <<ents, results, ensured>>
                   ELSE LET nxt == FirstStatement("services.database", e, <<>>)
                        IN  /\ ents' = [ents EXCEPT ![r] = nxt.ents]
                            /\ ensured' = [ensured EXCEPT ![r] = nxt.ensured]
                            /\ pc' = [pc EXCEPT ![r] = nxt.pc]
                            /\ results' = [results EXCEPT ![r] = InitialResults(e)]
                            /\ UNCHANGED <<response, raised>>
    /\ UNCHANGED <<db, poNumberUnique, inserted_refs, errorsInjected>>
    /\ UNCHANGED calls

\* What that step of process_invoice returns to the caller: the response of
\* an except clause, or nothing yet if the call is at a statement.
ProcessInvoiceResult(r, input, p) ==
    IF ValidateInput(input) # "ok"
    THEN ProcessInvoiceExcept(ValidateInput(input), input.shape).response
    ELSE LET e == MapToDatabaseModels(p, resolver[p], input.doc, r, GenerateGrnNumber(grnCounter).value)
             unpacked == Unpack(MappedTuple(e), UnpackTargets)
         IN  IF unpacked # "ok"
             THEN ProcessInvoiceExcept(unpacked, UnpackTargets).response
             ELSE NoResponse

\* Callers of process_invoice, one call after the other.
NextProcess ==
    \E r \in Runs, input \in Inputs, p \in Processors :
        ProcessInvoice(r, input, p) /\ UNCHANGED batch

SpecProcess == Init /\ [][NextProcess]_vars

(***************************************************************************)
(* InvoiceProcessor.process_batch_invoices.                                *)
(***************************************************************************)
\* result.get("grn_number") of a result without that key.
NoGrnNumber == "None"

\* The results dictionary at the start of the call.
InitialBatch(invoice_list) ==
    [invoice_list |-> invoice_list,
     at |-> "loop",
     idx |-> 1,
     results |-> [total |-> Len(invoice_list), successful |-> 0, failed |-> 0,
                  invoices |-> <<>>]]

\* A variant of BatchAfter that leaves the loop at the first invoice that
\* did not succeed.
BatchAfterAbortOnFailure(b, result) ==
    [b EXCEPT
       !.idx = IF result.status = "success" THEN @ + 1 ELSE Len(b.invoice_list) + 1,
       !.results.successful = IF result.status = "success" THEN @ + 1 ELSE @,
       !.results.failed = IF result.status = "success" THEN @ ELSE @ + 1,
       !.results.invoices =
           Append(@, [index |-> b.idx,
                      grn_number |-> IF result.status = "success"
                                     THEN result.grn_number ELSE NoGrnNumber,
                      status |-> result.status,
                      errors |-> result.errors])]

\* A variant of BatchAfter that counts every result as successful.
BatchAfterCountsSuccessful(b, result) ==
    [b EXCEPT
       !.idx = @ + 1,
       !.results.successful = @ + 1,
       !.results.invoices =
           Append(@, [index |-> b.idx,
                      grn_number |-> IF result.status = "success"
                                     THEN result.grn_number ELSE NoGrnNumber,
                      status |-> result.status,
                      errors |-> result.errors])]

\* The body of the loop past the await: count the result by its status,
\* append the invoice's entry, go on to the next invoice.
BatchAfter(b, result) ==
    [b EXCEPT
       !.idx = @ + 1,
       !.results.successful = IF result.status = "success" THEN @ + 1 ELSE @,
       !.results.failed = IF result.status = "success" THEN @ ELSE @ + 1,
       !.results.invoices =
           Append(@, [index |-> b.idx,
                      grn_number |-> IF result.status = "success"
                                     THEN result.grn_number ELSE NoGrnNumber,
                      status |-> result.status,
                      errors |-> result.errors])]

\* One iteration of the loop: await self.process_invoice(invoice_data) with
\* the processor the batch was called on.  A call that returns before its
\* first statement is recorded in the same step; the batch waits for any
\* other.
BatchProcessInvoice ==
    /\ batch.at = "loop"
    /\ batch.idx <= Len(batch.invoice_list)
    /\ ProcessInvoice(batch.idx, batch.invoice_list[batch.idx], 1)
    /\ LET result == ProcessInvoiceResult(batch.idx, batch.invoice_list[batch.idx], 1)
       IN  batch' = IF result # NoResponse
                    THEN BatchAfter(batch, result)
                    ELSE [batch EXCEPT !.at = "awaiting"]

\* The loop is exhausted: the results are returned.
BatchReturn ==
    /\ batch.at = "loop"
    /\ batch.idx > Len(batch.invoice_list)
    /\ batch' = [batch EXCEPT !.at = "returned"]
    /\ UNCHANGED <<db, poNumberUnique, resolver, inserted_refs, grnCounter, pc, proc,
                   service, response, doc, ents, results, ensured, raised,
                   errorsInjected, calls>>

InitBatch ==
    /\ InitProgram
    /\ \E invoice_list \in SeqsUpTo(Inputs, MaxRuns) : batch = InitialBatch(invoice_list)
    /\ calls = <<>>

NextBatch ==
    \/ BatchProcessInvoice
    \/ BatchReturn

\* One process_batch_invoices call on a list of at most MaxRuns invoices.  The
\* event loop runs the coroutine whenever it can go on.
SpecBatch == InitBatch /\ [][NextBatch]_vars /\ WF_vars(NextBatch)

(***************************************************************************)
(* Calls of the helpers on their own: each call is recorded in calls with  *)
(* its arguments and what it returned.                                     *)
(***************************************************************************)
MaxCalls == 3           \* helper calls made in one behaviour

\* What a helper call leaves as it is: the runs and the storage.
RunState ==
    <<pc, proc, service, response, doc, ents, results, ensured, raised,
      errorsInjected, batch>>

Call(fn, on, args, out) == [fn |-> fn, on |-> on, args |-> args, out |-> out]

\* The keys the resolve methods are called with: every kind, and for the
\* kinds resolved by a business key two of them.
ResolveKeys ==
    {SupplierKey, SupplierSiteKey, LegalEntityKey, LegalEntitySiteKey,
     CostCenterKey, ProfitCenterKey, ProjectKey, PlantKey, GlAccountKey, TaxRateKey}
    \cup {ItemKey(h) : h \in HsnCodes}

\* One resolve_X call on the resolver of mapper p.
ResolveRef(p, key) ==
    /\ Len(calls) < MaxCalls
    /\ resolver' = [resolver EXCEPT ![p] = GetOrCreateRef(p, resolver[p], key)]
    /\ calls' = Append(calls, Call("resolve", p, key, resolver'[p].cache[key]))
    /\ UNCHANGED <<db, poNumberUnique, inserted_refs, grnCounter>>
    /\ UNCHANGED RunState

\* ReferenceResolver.clear_cache: the cache is emptied; what uuid4 has
\* returned it does not return again.
ClearCache(p) ==
    /\ Len(calls) < MaxCalls
    /\ resolver' = [resolver EXCEPT ![p].cache = <<>>]
    /\ calls' = Append(calls, Call("clear_cache", p, <<>>, NoId))
    /\ UNCHANGED <<db, poNumberUnique, inserted_refs, grnCounter>>
    /\ UNCHANGED RunState

NextResolver ==
    \/ \E p \in Processors, key \in ResolveKeys : ResolveRef(p, key)
    \/ \E p \in Processors : ClearCache(p)

\* Any sequence of at most MaxCalls resolve and clear_cache calls on the
\* resolvers.
SpecResolver == Init /\ [][NextResolver]_vars

(***************************************************************************)
(* OCRMapper._extract_po_number.  A string is a sequence of characters; an *)
(* Optional value is <<>> for None and <<v>> for the value v.              *)
(***************************************************************************)
MaxChars == 2           \* characters of a po_number string
MaxListLen == 1         \* elements of the header's po_number list

None == <<>>
Some(v) == <<v>>

Chars == {" ", "A", "B"}
Strings == SeqsUpTo(Chars, MaxChars)
OptionalStrings == {None} \cup {Some(str) : str \in Strings}

\* The po_number of the header, Optional[List[str]], and of the lines, each
\* Optional[str].
StaticPoNumbers == {None} \cup {Some(l) : l \in SeqsUpTo(Strings, MaxListLen)}
LinePoNumbers == SeqsUpTo(OptionalStrings, MaxLines)

\* bool(x) of an Optional string or list: None and the empty one are false.
Truthy(opt) == opt # None /\ opt[1] # <<>>

\* str.strip().
RECURSIVE Strip(_)
Strip(str) ==
    IF str = <<>> THEN str
    ELSE IF Head(str) = " " THEN Strip(Tail(str))
    ELSE IF str[Len(str)] = " " THEN Strip(SubSeq(str, 1, Len(str) - 1))
    ELSE str

\* ' '.join(str.split()) of a stripped string: one space for every run of
\* spaces.
RECURSIVE JoinSplit(_)
JoinSplit(str) ==
    IF Len(str) < 2 THEN str
    ELSE IF str[1] = " " /\ str[2] = " " THEN JoinSplit(Tail(str))
    ELSE <<Head(str)>> \o JoinSplit(Tail(str))

\* DataTransformer.extract_first: the first element of a list, stripped;
\* None for None and for the empty list.
ExtractFirst(value) ==
    IF value # None /\ Len(value[1]) > 0
    THEN Some(Strip(value[1][1]))
    ELSE None

\* The longest string a po_number column takes.
PoNumberMaxLength == 50

\* DataTransformer.clean_string.
CleanString(value, max_length) ==
    IF ~Truthy(value) THEN None
    ELSE LET joined == JoinSplit(Strip(value[1]))
             cleaned == IF Len(joined) > max_length
                        THEN SubSeq(joined, 1, max_length) ELSE joined
         IN  IF cleaned # <<>> THEN Some(cleaned) ELSE None

\* _extract_po_number: the header's po_number, else the first line's.
ExtractPoNumber(static_po, line_pos) ==
    LET first == ExtractFirst(static_po)
        po_number == IF ~Truthy(first) /\ line_pos # <<>> THEN line_pos[1] ELSE first
    IN  IF Truthy(po_number) THEN CleanString(po_number, PoNumberMaxLength) ELSE None

\* map_to_database_models builds the PO header if the extracted po_number
\* is true.
BuildsPoHeader(po_number) == Truthy(po_number)

\* One mapping's extraction of the po_number.
ExtractPoNumberCall ==
    /\ calls = <<>>
    /\ \E static_po \in StaticPoNumbers, line_pos \in LinePoNumbers :
          calls' = <<Call("_extract_po_number", 0, <<static_po, line_pos>>,
                          ExtractPoNumber(static_po, line_pos))>>
    /\ UNCHANGED <<db, poNumberUnique, inserted_refs, grnCounter, resolver>>
    /\ UNCHANGED RunState

NextPoNumber == ExtractPoNumberCall

\* One extraction, for every header and every list of at most MaxLines lines.
SpecPoNumber == Init /\ [][NextPoNumber]_vars

(***************************************************************************)
(* OCRMapper._create_po_conditions.  A rate is a number of hundredths of a *)
(* percent: 1800 is 18.0.                                                  *)
(***************************************************************************)
MaxRates == 4           \* tax rate fields given in one document

DigitChars == <<"0", "1", "2", "3", "4", "5", "6", "7", "8", "9">>
IsDigit(c) == \E k \in DOMAIN DigitChars : DigitChars[k] = c
DigitValue(c) == (CHOOSE k \in DOMAIN DigitChars : DigitChars[k] = c) - 1

\* The value of a string of digits; 0 for the empty string.
RECURSIVE IntValue(_)
IntValue(digits) ==
    IF digits = <<>> THEN 0
    ELSE IntValue(SubSeq(digits, 1, Len(digits) - 1)) * 10 + DigitValue(digits[Len(digits)])

\* DataTransformer.safe_float of a string of digits and points, rounded to
\* two places, in hundredths: the default 0.0 if float() rejects the string
\* (no digit, or more than one point).
SafeFloat(cleaned) ==
    LET points == {k \in DOMAIN cleaned : cleaned[k] = "."}
    IN  IF Cardinality(points) > 1 \/ Cardinality(points) = Len(cleaned)
        THEN 0
        ELSE IF points = {}
        THEN IntValue(cleaned) * 100
        ELSE LET at == CHOOSE k \in points : TRUE
                 whole == SubSeq(cleaned, 1, at - 1)
                 frac == SubSeq(cleaned, at + 1, Len(cleaned))
                 place(k) == IF k <= Len(frac) THEN DigitValue(frac[k]) ELSE 0
             IN  IntValue(whole) * 100 + place(1) * 10 + place(2)
                 + (IF place(3) >= 5 THEN 1 ELSE 0)

\* DataTransformer.extract_tax_rate: the digits and points of the string as
\* a number; a number of at most 1 is taken as a fraction and multiplied by
\* 100.
ExtractTaxRate(tax_str) ==
    IF ~Truthy(tax_str) THEN 0
    ELSE LET keep(c) == IsDigit(c) \/ c = "."
             cleaned == SelectSeq(Strip(tax_str[1]), keep)
             rate == IF cleaned = <<>> THEN 0 ELSE SafeFloat(cleaned)
         IN  IF 0 < rate /\ rate <= 100 THEN rate * 100 ELSE rate

\* The rate strings of the inputs: "0", "18%", "0.18" and "5".
RateStrings ==
    {<<"0">>, <<"1", "8", "%">>, <<"0", ".", "1", "8">>, <<"5">>}

TaxTypes == <<"IGST", "CGST", "SGST">>

\* The rates of a header, each Optional[List[str]], and of a line, each
\* Optional[str], by tax type.
StaticRates == [{"IGST", "CGST", "SGST"} -> {None} \cup {Some(<<str>>) : str \in RateStrings}]
LineRates == [{"IGST", "CGST", "SGST"} -> {None} \cup {Some(str) : str \in RateStrings}]

RatesGiven(rates) == Cardinality({t \in DOMAIN rates : rates[t] # None})

RECURSIVE RatesGivenOnLines(_)
RatesGivenOnLines(lines) ==
    IF lines = <<>> THEN 0 ELSE RatesGiven(Head(lines)) + RatesGivenOnLines(Tail(lines))

\* The documents with at most MaxLines lines and MaxRates rates.
RateDocs ==
    {d \in [static : StaticRates, lines : SeqsUpTo(LineRates, MaxLines)] :
        RatesGiven(d.static) + RatesGivenOnLines(d.lines) <= MaxRates}

\* add_condition(tax_type, rate_str): a condition if the string is true and
\* its rate is positive.
AddCondition(tax_type, rate_str) ==
    IF Truthy(rate_str) /\ ExtractTaxRate(rate_str) > 0
    THEN <<[s_condition_type |-> tax_type, s_rate |-> ExtractTaxRate(rate_str)]>>
    ELSE <<>>

\* The conditions of the lines: for each line IGST, CGST, SGST, each if the
\* line's rate string is true.
RECURSIVE LineConditions(_)
LineConditions(lines) ==
    IF lines = <<>> THEN <<>>
    ELSE LET line == Head(lines)
             of(t) == IF Truthy(line[t]) THEN AddCondition(t, line[t]) ELSE <<>>
         IN  of("IGST") \o of("CGST") \o of("SGST") \o LineConditions(Tail(lines))

\* A variant of UniqueConditions that keeps every condition.
UniqueConditionsKeepAll(conditions) == conditions

\* The conditions without those whose (s_condition_type, s_rate) an earlier
\* one has.
UniqueConditions(conditions) ==
    LET first(k) == \A j \in 1..(k - 1) :
                       <<conditions[j].s_condition_type, conditions[j].s_rate>>
                       # <<conditions[k].s_condition_type, conditions[k].s_rate>>
        kept == {k \in DOMAIN conditions : first(k)}
        RECURSIVE Take(_)
        Take(k) == IF k > Len(conditions) THEN <<>>
                   ELSE (IF k \in kept THEN <<conditions[k]>> ELSE <<>>) \o Take(k + 1)
    IN  Take(1)

\* _create_po_conditions.
CreatePoConditions(static, lines) ==
    UniqueConditions(
        AddCondition("IGST", ExtractFirst(static["IGST"]))
        \o AddCondition("CGST", ExtractFirst(static["CGST"]))
        \o AddCondition("SGST", ExtractFirst(static["SGST"]))
        \o LineConditions(lines))

\* The mapping of the conditions of one document with a PO.
CreatePoConditionsCall ==
    /\ calls = <<>>
    /\ \E d \in RateDocs :
          calls' = <<Call("_create_po_conditions", 0, d,
                          CreatePoConditions(d.static, d.lines))>>
    /\ UNCHANGED <<db, poNumberUnique, inserted_refs, grnCounter, resolver>>
    /\ UNCHANGED RunState

NextConditions == CreatePoConditionsCall

\* One mapping of the conditions, for every document of RateDocs.
SpecConditions == Init /\ [][NextConditions]_vars

(***************************************************************************)
(* OCRMapper.map_to_database_models on its own.                            *)
(***************************************************************************)
NumMappingHsn == 2      \* distinct normalized HSN codes of the mapped documents

\* The documents mapped: as Docs, with more HSN codes and with the
\* documents without lines.
MappingDocs ==
    {d \in [po : 0..NumPoNumbers,
            lines : SeqsUpTo({ToString(h) : h \in 1..NumMappingHsn}, MaxLines),
            taxes : 0..MaxConds] :
        d.po = 0 => d.taxes = 0}

\* One call of the mapper of processor p.
MapCall(d, p) ==
    /\ Len(calls) < MaxRuns
    /\ calls' = Append(calls,
                       Call("map_to_database_models", p, d,
                            MapToDatabaseModels(p, resolver[p], d, Len(calls) + 1, GenerateGrnNumber(grnCounter).value)))
    /\ resolver' = [resolver EXCEPT ![p] = ResolverAfterMapping(p, resolver[p], d)]
    /\ grnCounter' = GenerateGrnNumber(grnCounter).counter
    /\ UNCHANGED <<db, poNumberUnique, inserted_refs>>
    /\ UNCHANGED RunState

NextMapping == \E d \in MappingDocs, p \in Processors : MapCall(d, p)

\* At most MaxRuns mapping calls, one after the other.
SpecMapping == Init /\ [][NextMapping]_vars

(***************************************************************************)
(* IDGenerator.  A formatted identifier is the record of the parts of its  *)
(* f-string; a digest is the term of what was hashed.  What a generator    *)
(* reads besides its arguments is the environment of the call: the clock   *)
(* and the random source.                                                  *)
(***************************************************************************)
MaxIdCalls == 2         \* generator calls made in one behaviour
NumRandom == 2          \* values random.randint returns

Dates == {[year |-> 2026, day_of_year |-> 306], [year |-> 2027, day_of_year |-> 1]}
RandomSuffixes == 100..(99 + NumRandom)
Envs == [today : Dates, random : RandomSuffixes]

\* The po_number, GRN number and material code arguments.
IdPoNumbers == {<<"A">>, <<"B">>, <<"A", "-", "B">>}
IdGrnNumbers == {<<"5", "0", "1">>, <<"5", "0", "2">>}
MaterialCodes == {None} \cup {Some(h) : h \in HsnCodes}

\* str.split('-')[0].
RECURSIVE BeforeDash(_)
BeforeDash(str) ==
    IF str = <<>> \/ Head(str) = "-" THEN <<>>
    ELSE <<Head(str)>> \o BeforeDash(Tail(str))

\* po_id.split('-')[0] of the po_id f"{po_number}-{hash_suffix}": the first
\* "-" is one of po_number or the one before the digest.
PoBase(po_id) == BeforeDash(po_id.po_number)

\* generate_po_id: the timestamp it takes from the clock is not used.
GeneratePoId(po_number, env) ==
    [po_number |-> po_number, hash_suffix |-> <<"sha256", po_number>>]

RECURSIVE DigitSum(_)
DigitSum(digits) ==
    IF digits = <<>> THEN 0 ELSE DigitValue(Head(digits)) + DigitSum(Tail(digits))

\* generate_grn_id: fiscal_year is the year of the clock.
GenerateGrnId(grn_number, env) ==
    [grn_number |-> grn_number,
     fiscal_year |-> env.today.year % 100,
     checksum |-> DigitSum(grn_number) % 10]

\* generate_grn_line_id.
GenerateGrnLineId(grn_id, line_number, env) ==
    [grn_id |-> grn_id, line_number |-> line_number]

\* generate_po_line_id.
GeneratePoLineId(po_id, line_number, env) ==
    [po_base |-> PoBase(po_id), line_number |-> line_number]

\* condition_map.get(condition_type, condition_type).
SapCondition(condition_type) ==
    CASE condition_type = "IGST" -> "JIGG"
      [] condition_type = "CGST" -> "JICG"
      [] condition_type = "SGST" -> "JISG"
      [] condition_type = "VAT" -> "MWST"
      [] condition_type = "FREIGHT" -> "FRA1"
      [] condition_type = "DISCOUNT" -> "SKTO"
      [] OTHER -> condition_type

\* generate_po_condition_id.
GeneratePoConditionId(po_id, condition_type, env) ==
    [po_base |-> PoBase(po_id),
     sap_condition |-> SapCondition(condition_type),
     hash_suffix |-> <<"md5", po_id, condition_type>>]

\* generate_batch_number: the date is today's if none is given, the suffix
\* is drawn from the random source.
GenerateBatchNumber(material_code, manufacture_date, env) ==
    LET on == IF manufacture_date = None THEN env.today ELSE manufacture_date[1]
    IN  [year_2digit |-> on.year % 100,
         day_of_year |-> on.day_of_year,
         suffix |-> env.random]

\* The identifiers the generators are called with.
PoIds == {GeneratePoId(po_number, env) : po_number \in IdPoNumbers, env \in Envs}
GrnIds == {GenerateGrnId(grn_number, env) : grn_number \in IdGrnNumbers, env \in Envs}

\* A call of generator fn with arguments args in environment env has
\* returned out.
IdCall(fn, env, args, out) ==
    /\ calls' = Append(calls, Call(fn, env, args, out))
    /\ UNCHANGED <<db, poNumberUnique, inserted_refs, grnCounter, resolver>>
    /\ UNCHANGED RunState

GeneratePoIdCall(env) ==
    /\ Len(calls) < MaxIdCalls
    /\ \E po_number \in IdPoNumbers :
           IdCall("generate_po_id", env, <<po_number>>, GeneratePoId(po_number, env))

GenerateGrnIdCall(env) ==
    /\ Len(calls) < MaxIdCalls
    /\ \E grn_number \in IdGrnNumbers :
           IdCall("generate_grn_id", env, <<grn_number>>, GenerateGrnId(grn_number, env))

GenerateGrnLineIdCall(env) ==
    /\ Len(calls) < MaxIdCalls
    /\ \E grn_id \in GrnIds, line_number \in 1..MaxLines :
           IdCall("generate_grn_line_id", env, <<grn_id, line_number>>,
                  GenerateGrnLineId(grn_id, line_number, env))

GeneratePoLineIdCall(env) ==
    /\ Len(calls) < MaxIdCalls
    /\ \E po_id \in PoIds, line_number \in 1..MaxLines :
           IdCall("generate_po_line_id", env, <<po_id, line_number>>,
                  GeneratePoLineId(po_id, line_number, env))

GeneratePoConditionIdCall(env) ==
    /\ Len(calls) < MaxIdCalls
    /\ \E po_id \in PoIds, t \in DOMAIN TaxTypes :
           IdCall("generate_po_condition_id", env, <<po_id, TaxTypes[t]>>,
                  GeneratePoConditionId(po_id, TaxTypes[t], env))

GenerateBatchNumberCall(env) ==
    /\ Len(calls) < MaxIdCalls
    /\ \E material_code \in MaterialCodes, manufacture_date \in {None} \cup {Some(d) : d \in Dates} :
           IdCall("generate_batch_number", env, <<material_code, manufacture_date>>,
                  GenerateBatchNumber(material_code, manufacture_date, env))

NextIdGenerator ==
    \/ \E env \in Envs : GeneratePoIdCall(env)
    \/ \E env \in Envs : GenerateGrnIdCall(env)
    \/ \E env \in Envs : GenerateGrnLineIdCall(env)
    \/ \E env \in Envs : GeneratePoLineIdCall(env)
    \/ \E env \in Envs : GeneratePoConditionIdCall(env)
    \/ \E env \in Envs : GenerateBatchNumberCall(env)

\* At most MaxIdCalls generator calls, each at some time and with some
\* state of the random source.
SpecIdGenerator == Init /\ [][NextIdGenerator]_vars

(***************************************************************************)
(* OCRMapper._determine_po_type.  A description is absent (None) or a      *)
(* string; a string is the sequence of its characters.                     *)
(***************************************************************************)
MaxTypeLines == 3       \* invoice lines of one classified document

UpperChars == <<"A", "B", "C", "D", "E", "F", "G", "H", "I", "J", "K", "L", "M", "N", "O", "P", "Q", "R", "S", "T", "U", "V", "W", "X", "Y", "Z">>
LowerChars == <<"a", "b", "c", "d", "e", "f", "g", "h", "i", "j", "k", "l", "m", "n", "o", "p", "q", "r", "s", "t", "u", "v", "w", "x", "y", "z">>

\* str.lower(), on the characters of the inputs.
LowerChar(c) ==
    IF \E i \in DOMAIN UpperChars : UpperChars[i] = c
    THEN LowerChars[CHOOSE i \in DOMAIN UpperChars : UpperChars[i] = c]
    ELSE c

Lower(str) == [i \in DOMAIN str |-> LowerChar(str[i])]

\* keyword in descriptions: the keyword is a substring.
Contains(str, keyword) ==
    \E i \in 0..(Len(str) - Len(keyword)) : SubSeq(str, i + 1, i + Len(keyword)) = keyword

\* ' '.join(strs).
RECURSIVE JoinWithSpace(_)
JoinWithSpace(strs) ==
    IF strs = <<>> THEN <<>>
    ELSE IF Len(strs) = 1 THEN strs[1]
    ELSE strs[1] \o <<" ">> \o JoinWithSpace(Tail(strs))

ServiceKeywords ==
    {<<"s", "e", "r", "v", "i", "c", "e">>,
     <<"c", "o", "n", "s", "u", "l", "t", "i", "n", "g">>,
     <<"m", "a", "i", "n", "t", "e", "n", "a", "n", "c", "e">>,
     <<"s", "u", "p", "p", "o", "r", "t">>,
     <<"l", "i", "c", "e", "n", "s", "e">>}

CapexKeywords ==
    {<<"e", "q", "u", "i", "p", "m", "e", "n", "t">>,
     <<"m", "a", "c", "h", "i", "n", "e", "r", "y">>,
     <<"c", "a", "p", "i", "t", "a", "l">>,
     <<"i", "n", "s", "t", "a", "l", "l", "a", "t", "i", "o", "n">>,
     <<"i", "n", "f", "r", "a", "s", "t", "r", "u", "c", "t", "u", "r", "e">>}

\* The descriptions of the classified lines: no description, an empty one,
\* halves of a keyword, keywords in either case and inside other text.
DescriptionTexts ==
    {<<>>,
     <<<<>>>>,
     <<<<"s", "e", "r", "v">>>>,
     <<<<"i", "c", "e">>>>,
     <<<<"A", "M", "C", " ", "S", "u", "p", "p", "o", "r", "t">>>>,
     <<<<"C", "a", "p", "i", "t", "a", "l">>>>,
     <<<<"e", "q", "u", "i", "p", "m", "e", "n", "t">>>>,
     <<<<"b", "o", "l", "t", " ", "M", "8">>>>}

TypeLines == SeqsUpTo(DescriptionTexts, MaxTypeLines)

\* (line.description or '').lower()
DescriptionOrEmpty(description) ==
    IF description = <<>> THEN <<>> ELSE Lower(description[1])

\* A variant of DeterminePoType that looks for the CAPEX keywords first.
DeterminePoTypeCapexFirst(lines) ==
    IF lines = <<>> THEN "MATERIAL"
    ELSE LET descriptions ==
                JoinWithSpace([k \in DOMAIN lines |-> DescriptionOrEmpty(lines[k])])
         IN  IF \E keyword \in CapexKeywords : Contains(descriptions, keyword)
             THEN "CAPEX"
             ELSE IF \E keyword \in ServiceKeywords : Contains(descriptions, keyword)
             THEN "SERVICE"
             ELSE "MATERIAL"

DeterminePoType(lines) ==
    IF lines = <<>> THEN "MATERIAL"
    ELSE LET descriptions ==
                JoinWithSpace([k \in DOMAIN lines |-> DescriptionOrEmpty(lines[k])])
         IN  IF \E keyword \in ServiceKeywords : Contains(descriptions, keyword)
             THEN "SERVICE"
             ELSE IF \E keyword \in CapexKeywords : Contains(descriptions, keyword)
             THEN "CAPEX"
             ELSE "MATERIAL"

\* One call of _determine_po_type.
DeterminePoTypeCall ==
    /\ calls = <<>>
    /\ \E lines \in TypeLines :
          calls' = <<[fn |-> "_determine_po_type", on |-> 0, args |-> lines,
                      out |-> DeterminePoType(lines)]>>
    /\ UNCHANGED <<db, poNumberUnique, resolver, inserted_refs, grnCounter, pc, proc, service,
                   response, doc, ents, results, ensured, raised, errorsInjected, batch>>

NextPoType == DeterminePoTypeCall

SpecPoType == Init /\ [][NextPoType]_vars

(***************************************************************************)
(* DataTransformer.extract_hsn_code.                                       *)
(***************************************************************************)
MaxHsnChars == 9        \* characters of an HSN input string

HsnChars == {"4", "0", "x"}

\* The hsn argument, Optional[str].
HsnInputs == {None} \cup {Some(str) : str \in SeqsUpTo(HsnChars, MaxHsnChars)}

\* ''.join(c for c in str(hsn) if c.isdigit())
RECURSIVE DigitsOf(_)
DigitsOf(str) ==
    IF str = <<>> THEN <<>>
    ELSE IF IsDigit(Head(str)) THEN <<Head(str)>> \o DigitsOf(Tail(str))
    ELSE DigitsOf(Tail(str))

\* str.ljust(width, fillchar).
Ljust(str, width, fillchar) ==
    IF Len(str) >= width THEN str
    ELSE str \o [k \in 1..(width - Len(str)) |-> fillchar]

UnknownHsn == <<"9", "9", "9", "9", "9", "9">>

\* A variant of ExtractHsnCode that cuts only codes of more than nine
\* digits.
ExtractHsnCodeCutsLate(hsn) ==
    IF ~Truthy(hsn) THEN UnknownHsn
    ELSE LET hsn_digits == DigitsOf(hsn[1])
         IN  IF hsn_digits = <<>> THEN UnknownHsn
             ELSE IF Len(hsn_digits) < 6 THEN Ljust(hsn_digits, 6, "0")
             ELSE IF Len(hsn_digits) > 9 THEN SubSeq(hsn_digits, 1, 8)
             ELSE hsn_digits

ExtractHsnCode(hsn) ==
    IF ~Truthy(hsn) THEN UnknownHsn
    ELSE LET hsn_digits == DigitsOf(hsn[1])
         IN  IF hsn_digits = <<>> THEN UnknownHsn
             ELSE IF Len(hsn_digits) < 6 THEN Ljust(hsn_digits, 6, "0")
             ELSE IF Len(hsn_digits) > 8 THEN SubSeq(hsn_digits, 1, 8)
             ELSE hsn_digits

\* One call of extract_hsn_code.
ExtractHsnCodeCall ==
    /\ calls = <<>>
    /\ \E hsn \in HsnInputs :
          calls' = <<[fn |-> "extract_hsn_code", on |-> 0, args |-> hsn,
                      out |-> ExtractHsnCode(hsn)]>>
    /\ UNCHANGED <<db, poNumberUnique, resolver, inserted_refs, grnCounter, pc, proc, service,
                   response, doc, ents, results, ensured, raised, errorsInjected, batch>>

NextHsnCode == ExtractHsnCodeCall

SpecHsnCode == Init /\ [][NextHsnCode]_vars

(***************************************************************************)
(* Items: the mapper's loop over the lines, which resolves an item         *)
(* reference for every line, and the loop of insert_complete_invoice over  *)
(* item_info, which ensures every item.  A line is reduced to its          *)
(* hsn_number and its description, both Optional[str].                     *)
(***************************************************************************)
MaxItemCalls == 2       \* mappings followed by their ensure loops

ItemHsnNumbers == {None, Some(<<"4">>), Some(<<"4", "0">>), Some(UnknownHsn)}
ItemDescriptions == {None, Some(<<"A">>), Some(<<"B">>)}
ItemLines == SeqsUpTo([hsn_number : ItemHsnNumbers, description : ItemDescriptions], MaxLines)

Unknown == <<"U", "N", "K", "N", "O", "W", "N">>

\* line.description or "UNKNOWN"
DescriptionOrUnknown(description) ==
    IF Truthy(description) THEN description[1] ELSE Unknown

\* A variant of ItemCacheKey that prefers the description to the HSN code.
ItemCacheKeyByDescription(item_description, hsn_code) ==
    <<"item", IF item_description # <<>> THEN item_description ELSE hsn_code>>

\* f"item_{hsn_code or item_description}"
ItemCacheKey(item_description, hsn_code) ==
    <<"item", IF hsn_code # <<>> THEN hsn_code ELSE item_description>>

\* resolve_item_ref: the resolver after the call; the reference is what its
\* cache holds for the key.
ResolveItemRef(m, rs, item_description, hsn_code) ==
    GetOrCreateRef(m, rs, ItemCacheKey(item_description, hsn_code))

\* The loop over the lines: the resolver it leaves and the item_info list.
RECURSIVE CollectItemInfo(_, _, _, _)
CollectItemInfo(m, rs, lines, item_info) ==
    IF lines = <<>> THEN [resolver |-> rs, item_info |-> item_info]
    ELSE LET hsn_code == ExtractHsnCode(Head(lines).hsn_number)
             item_description == DescriptionOrUnknown(Head(lines).description)
             rs2 == ResolveItemRef(m, rs, item_description, hsn_code)
         IN  CollectItemInfo(m, rs2, Tail(lines),
                 Append(item_info,
                        [item_ref |-> rs2.cache[ItemCacheKey(item_description, hsn_code)],
                         description |-> item_description,
                         hsn_code |-> hsn_code]))

\* ensure_item, its statements succeeding: the _inserted_refs and the item
\* table after the call.
EnsureItem(cache, rows, item) ==
    IF <<"item", item.item_ref>> \in DOMAIN cache
    THEN [cache |-> cache, rows |-> rows]
    ELSE IF \E row \in rows : row.id = item.item_ref
    THEN [cache |-> (<<"item", item.item_ref>> :> item.item_ref) @@ cache, rows |-> rows]
    ELSE [cache |-> (<<"item", item.item_ref>> :> item.item_ref) @@ cache,
          rows  |-> rows \cup {[id |-> item.item_ref, key |-> item.hsn_code,
                                description |-> item.description]}]

\* The loop over item_info.
RECURSIVE EnsureItems(_, _, _)
EnsureItems(cache, rows, item_info) ==
    IF item_info = <<>> THEN [cache |-> cache, rows |-> rows]
    ELSE LET after == EnsureItem(cache, rows, Head(item_info))
         IN  EnsureItems(after.cache, after.rows, Tail(item_info))

\* The mapper of processor p maps the lines.
MapItemsCall(lines, p) ==
    /\ Len(calls) < 2 * MaxItemCalls
    /\ IF calls = <<>> THEN TRUE ELSE calls[Len(calls)].fn = "ensure_items"
    /\ \A q \in Processors : q < p => \E i \in 1..Len(calls) : calls[i].on = q
    /\ LET mapped == CollectItemInfo(p, resolver[p], lines, <<>>)
       IN  /\ resolver' = [resolver EXCEPT ![p] = mapped.resolver]
           /\ calls' = Append(calls, [fn |-> "map_items", on |-> p, args |-> lines,
                                      out |-> mapped.item_info])
    /\ UNCHANGED <<db, poNumberUnique, inserted_refs, grnCounter, pc, proc, service,
                   response, doc, ents, results, ensured, raised, errorsInjected, batch>>

\* The database service of the same processor ensures the items mapped last.
EnsureItemsCall ==
    /\ calls # <<>>
    /\ calls[Len(calls)].fn = "map_items"
    /\ LET p == calls[Len(calls)].on
           after == EnsureItems(inserted_refs[p], db.master["item"], calls[Len(calls)].out)
       IN  /\ inserted_refs' = [inserted_refs EXCEPT ![p] = after.cache]
           /\ db' = [db EXCEPT !.master["item"] = after.rows]
           /\ calls' = Append(calls, [fn |-> "ensure_items", on |-> p,
                                      args |-> calls[Len(calls)].out, out |-> after.rows])
    /\ UNCHANGED <<poNumberUnique, resolver, grnCounter, pc, proc, service,
                   response, doc, ents, results, ensured, raised, errorsInjected, batch>>

NextItems ==
    \/ \E lines \in ItemLines, p \in Processors : MapItemsCall(lines, p)
    \/ EnsureItemsCall

SpecItems == Init /\ [][NextItems]_vars

(***************************************************************************)
(* The s_po_condition_id add_condition gives a condition of the PO po_id.  *)
(***************************************************************************)
PoConditionIdOf(po_id, condition, env) ==
    GeneratePoConditionId(po_id, condition.s_condition_type, env)

(***************************************************************************)
(* Properties.                                                             *)
(***************************************************************************)
PoNumbers == 1..NumPoNumbers

TransactionalTables == {"po_header", "po_line", "po_condition", "grn_header", "grn_line"}

PoBranch == {"po_header", "po_line", "po_condition"}

\* The rows of table tbl of storage d that run r built.
RowsOf(d, tbl, r) == {row \in d[tbl] : row.id[2] = r}

Started(r) == pc[r].at # "idle"

\* C1: after runs of insert_complete_invoice executed one after the other,
\* storage holds at most one PO header per po_number, and a run whose
\* po_number has a PO header stored by an earlier run is never at the insert
\* of a PO header, PO line or PO condition.
C1_PoWrittenAtMostOnce ==
    /\ \A n \in PoNumbers : Cardinality(PoHeadersOf(n)) <= 1
    /\ \A r \in Runs :
          pc[r].at \in PoBranch =>
             \A row \in PoHeadersOf(ents[r].po_header.s_po_number) :
                row.id = ents[r].po_header.id

\* C2: when two process_invoice calls for documents with the same po_number
\* have returned one after the other, storage holds one PO header with that
\* number and the GRN headers of both calls, the second GRN header refers to
\* the stored PO's line with the lowest s_line_number, and the second run
\* reported po_exists = true, the stored header's id and no PO line or
\* condition inserted.
C2_PoReuse ==
    \A r1, r2 \in Runs :
       (/\ r1 < r2
        /\ pc[r1].at = "returned" /\ pc[r2].at = "returned"
        /\ doc[r1].po # 0 /\ doc[r1].po = doc[r2].po)
       => /\ Cardinality(PoHeadersOf(doc[r1].po)) = 1
          /\ Cardinality(db.grn_header) = 2
          /\ \A h \in PoHeadersOf(doc[r1].po) :
                /\ PoLinesOf(h.id) # {}
                /\ \A g \in RowsOf(db, "grn_header", r2) :
                      g.s_po_line_ref = FirstByLineNumber(PoLinesOf(h.id)).id
                /\ results[r2].po_header_id = h.id
          /\ results[r2].po_exists = "true"
          /\ results[r2].po_lines_count = 0
          /\ results[r2].po_conditions_count = 0

\* The reference fields of the rows of one kind of entity, as <<kind, id>>.
PoHeaderRefs(row) ==
    {<<"supplier", row.s_supplier_ref>>,
     <<"supplier_site", row.s_supplier_site_ref>>,
     <<"legal_entity", row.s_legal_entity_ref>>,
     <<"legal_entity_site", row.s_legal_entity_site_ref>>,
     <<"cost_center", row.s_cost_center_ref>>,
     <<"profit_center", row.s_profit_center_ref>>,
     <<"project", row.s_project_ref>>,
     <<"plant", row.s_plant_ref>>,
     <<"tax_rate", row.s_tax_rate_ref>>}

GrnHeaderRefs(row, has_po) ==
    {<<"supplier_site", row.s_supplier_site_ref>>,
     <<"legal_entity_site", row.s_legal_entity_site_ref>>,
     <<"gl_account", row.s_gl_account_ref>>}
    \cup (IF has_po THEN {} ELSE {<<"project", row.s_po_line_ref>>})

\* C3: every reference field of a PO header, PO line, GRN header or GRN line
\* a run has written holds an identifier an ensure call of that run has
\* returned; for an invoice without a PO this includes s_po_line_ref, a
\* project reference.
C3_RefsEnsuredBeforeWrite ==
    \A r \in Runs :
       /\ \A row \in RowsOf(db, "po_header", r) : PoHeaderRefs(row) \subseteq ensured[r]
       /\ \A row \in RowsOf(db, "po_line", r) : <<"item", row.s_item_ref>> \in ensured[r]
       /\ \A row \in RowsOf(db, "grn_header", r) :
             GrnHeaderRefs(row, ents[r].has_po) \subseteq ensured[r]
       /\ \A row \in RowsOf(db, "grn_line", r) : <<"item", row.s_item_ref>> \in ensured[r]

\* The statements of a run in the order of the sequencing contract; the
\* lookup of the first line of a stored PO follows the PO lookup.
StatementOrder ==
    <<"supplier", "supplier_site", "legal_entity", "legal_entity_site", "item",
      "cost_center", "profit_center", "project", "plant", "tax_rate",
      "gl_account",
      "po_lookup", "po_first_line", "po_header", "po_line", "po_condition",
      "grn_header", "grn_line">>

PoMasterKinds == {"cost_center", "profit_center", "project", "plant", "tax_rate"}

StatementName(e, p) ==
    IF p.at \in {"ensure_check", "ensure_insert"} THEN EnsureOps(e)[p.i].kind ELSE p.at

\* The place of the statement at p among the statements of a run on e: by
\* StatementOrder, then by the index of the call or row, then check before
\* insert.
Place(e, p) ==
    LET rank == CHOOSE k \in 1..Len(StatementOrder) : StatementOrder[k] = StatementName(e, p)
    IN  <<rank, p.i, IF p.at = "ensure_insert" THEN 1 ELSE 0>>

Before(a, b) ==
    \/ a[1] < b[1]
    \/ a[1] = b[1] /\ a[2] < b[2]
    \/ a[1] = b[1] /\ a[2] = b[2] /\ a[3] < b[3]

KindsEnsured(r) == {x[1] : x \in ensured[r]}

\* C4: a run of insert_complete_invoice of src/temp.py issues its statements
\* in the order of StatementOrder, one at a time: whenever it moves from one
\* statement to the next, the next one has a later place; the master data of
\* the PO is ensured only for an invoice with a PO; the transactional phase
\* starts with every ensure call returned; and the PO rows are inserted only
\* after a lookup that found no PO.
C4_StatementOrder ==
    /\ [][\A r \in Runs :
            (/\ service[r] = "temp"
             /\ Active(r)
             /\ pc'[r] # pc[r]
             /\ pc'[r].at \notin {"done", "failed"})
            => Before(Place(ents[r], pc[r]), Place(ents'[r], pc'[r]))]_vars
    /\ [](\A r \in Runs :
            service[r] = "temp" /\ Active(r) =>
               /\ StatementName(ents[r], pc[r]) \in PoMasterKinds => ents[r].has_po
               /\ pc[r].at \notin {"ensure_check", "ensure_insert"} =>
                     KindsEnsured(r) =
                        {"supplier", "supplier_site", "legal_entity",
                         "legal_entity_site", "item", "gl_account"}
                        \cup (IF ents[r].has_po THEN PoMasterKinds ELSE {})
               /\ pc[r].at \in PoBranch =>
                     ents[r].has_po /\ results[r].po_exists = "unset")

\* A run of src/temp.py has inserted a new PO with two lines and a condition
\* and has completed.
C4_Witness ==
    \E r \in Runs :
       /\ service[r] = "temp"
       /\ pc[r].at = "done"
       /\ results[r].po_exists = "false"
       /\ results[r].po_lines_count = MaxLines
       /\ results[r].po_conditions_count = MaxConds
       /\ results[r].grn_lines_count = MaxLines

\* C5: every run that has completed has written its own GRN header and one
\* GRN line per line of its document, whether the invoice has no PO, a new
\* PO or a stored PO.
C5_GrnPerRun ==
    \A r \in Runs :
       pc[r].at = "done" =>
          /\ RowsOf(db, "grn_header", r) = {ents[r].grn_header}
          /\ RowsOf(db, "grn_line", r) =
                {ents[r].grn_lines[k] : k \in 1..Len(doc[r].lines)}
          /\ Cardinality(RowsOf(db, "grn_line", r)) = Len(doc[r].lines)
          /\ results[r].success
          /\ \A o \in Runs \ {r} : ents[r].grn_header \notin RowsOf(db, "grn_header", o)

\* The second of two runs for identical documents with a PO found the PO
\* stored and has completed with a GRN of two lines.
C5_Witness ==
    \E r \in Runs :
       /\ r > 1
       /\ pc[r].at = "done"
       /\ doc[r] = doc[1]
       /\ results[r].po_exists = "true"
       /\ Len(doc[r].lines) = MaxLines
       /\ Cardinality(db.grn_header) = r

\* C6: storage holds at most one row of a master data kind per business key.
C6_OneRowPerBusinessKey ==
    \A kind \in MasterKinds :
       \A row1, row2 \in db.master[kind] :
          row1.key = row2.key => row1.id = row2.id

\* The error a PO header insert rejected by the uniqueness constraint
\* leaves in the results.
PoHeaderUniqueError == Entry("insert", "po_header", 0, "unique")

\* C7: of concurrent runs with the same po_number none ends failed on the
\* uniqueness violation of its PO header insert, and storage holds one PO
\* header for that po_number.
C7_PoInsertRaceRecovered ==
    /\ \A n \in PoNumbers : Cardinality(PoHeadersOf(n)) <= 1
    /\ \A r \in Runs :
          pc[r].at = "failed" => results[r].errors # <<PoHeaderUniqueError>>

\* C8: no run ends failed on the uniqueness violation of the insert of an
\* ensure call.
C8_EnsureRaceRecovered ==
    \A r \in Runs :
       pc[r].at = "failed" =>
          \A k \in 1..Len(results[r].errors) :
             ~(/\ results[r].errors[k].tbl \in MasterKinds
               /\ results[r].errors[k].out = "unique")

EnsureOrInsert ==
    {"ensure_check", "ensure_insert", "po_header", "po_line", "po_condition",
     "grn_header", "grn_line"}

\* Run r's ensure or insert statement fails in this step: the check of an
\* ensure call with an error of the executor, an insert by leaving storage
\* as it was.
StatementFails(r) ==
    /\ pc[r].at \in EnsureOrInsert
    /\ pc'[r] # pc[r]
    /\ IF pc[r].at = "ensure_check"
       THEN errorsInjected' # errorsInjected
       ELSE db' = db

\* C9: when an ensure or insert statement of a run fails, the run is over:
\* the error is appended to results["errors"], success is false and the
\* exception leaves insert_complete_invoice; afterwards the run issues no
\* statement, its results and its rows stay as they are, and no row of
\* storage is removed.
C9_FailureAborts ==
    /\ [][\A r \in Runs :
            /\ StatementFails(r) =>
                  /\ pc'[r].at = "failed"
                  /\ raised'[r]
                  /\ ~results'[r].success
                  /\ Len(results'[r].errors) = Len(results[r].errors) + 1
                  /\ ents'[r] = ents[r]
            /\ pc[r].at = "failed" =>
                  /\ pc'[r] = pc[r]
                  /\ results'[r] = results[r]
                  /\ raised'[r]
                  /\ \A tbl \in TransactionalTables : RowsOf(db', tbl, r) = RowsOf(db, tbl, r)
            /\ \A tbl \in TransactionalTables : db[tbl] \subseteq db'[tbl]]_vars
    /\ [](\A r \in Runs :
            /\ pc[r].at = "failed" <=> raised[r]
            /\ raised[r] => ~results[r].success /\ Len(results[r].errors) = 1)

\* A run failed at a GRN line insert, its GRN header written.
C9_Witness ==
    \E r \in Runs :
       /\ raised[r]
       /\ results[r].errors[1].tbl = "grn_line"
       /\ RowsOf(db, "grn_header", r) # {}
       /\ results[r].grn_lines_count = 1

C11_BatchInOrder ==
    /\ [](batch.at # "none" =>
            /\ Len(batch.results.invoices) = batch.idx - 1
            /\ batch.results.total = Len(batch.invoice_list)
            /\ batch.results.successful + batch.results.failed = batch.idx - 1
            /\ \A r \in Runs : Started(r) <=> r < batch.idx
            /\ \A k \in 1..Len(batch.results.invoices) :
                  /\ pc[k].at = "returned"
                  /\ doc[k] = batch.invoice_list[k].doc
                  /\ batch.results.invoices[k].index = k
                  /\ batch.results.invoices[k].status = response[k].status
                  /\ batch.results.invoices[k].errors = response[k].errors)
    /\ [][\A r \in Runs :
            ~Started(r) /\ pc'[r].at # "idle" =>
               /\ r = batch.idx
               /\ \A q \in Runs : q < r => pc[q].at = "returned"]_vars
    /\ [](batch.at = "returned" =>
            Len(batch.results.invoices) = Len(batch.invoice_list))
    /\ <>(batch.at = "returned")

\* A batch of MaxRuns invoices whose first invoice failed validation has
\* returned, the later invoices processed.
C11_Witness ==
    /\ batch.at = "returned"
    /\ Len(batch.invoice_list) = MaxRuns
    /\ batch.invoice_list[1].shape # "ok"
    /\ batch.invoice_list[MaxRuns].shape = "ok"
    /\ batch.results.invoices[1].status = "failed"
    /\ batch.results.invoices[MaxRuns].index = MaxRuns
    /\ batch.results.failed = MaxRuns

\* The call of run r was made with a payload that passed validation.
ValidDocument(r) == Started(r) /\ doc[r] # NoDoc

\* C12: a process_invoice call for a document that passed validation, no
\* statement of which failed, has returned status "success" with the GRN
\* number of the mapped GRN header, grn_lines_inserted the number of lines
\* of the document and, the PO not being stored before, po_lines_inserted
\* the number of lines and po_conditions_inserted the number of mapped
\* conditions.
C12_ValidDocumentSucceeds ==
    \A r \in Runs :
       (ValidDocument(r) /\ pc[r].at = "returned" /\ errorsInjected = 0) =>
          /\ response[r].status = "success"
          /\ response[r].grn_number = ents[r].grn_header.s_grn_number
          /\ response[r].details.grn_lines_inserted = Len(doc[r].lines)
          /\ (HasPo(doc[r]) /\ results[r].po_exists # "true") =>
                /\ response[r].details.po_lines_inserted = Len(doc[r].lines)
                /\ response[r].details.po_conditions_inserted = doc[r].taxes

\* The state process_invoice may change before its first statement, and
\* the state its statements change.
MapperState == <<resolver, grnCounter>>
StorageState == <<db, inserted_refs, poNumberUnique>>

SameKeyCalls(i, j) ==
    /\ calls[i].fn = "resolve" /\ calls[j].fn = "resolve"
    /\ calls[i].on = calls[j].on
    /\ calls[i].args = calls[j].args
    /\ \A k \in (i + 1)..(j - 1) :
          ~(calls[k].fn = "clear_cache" /\ calls[k].on = calls[i].on)

\* C14: of the resolve calls made on one resolver, two with the same kind
\* and business key and no clear_cache between them returned the same
\* identifier, whatever calls of other kinds and keys lie between them; and
\* no step but a clear_cache removes a key from a resolver's cache or
\* changes the identifier cached for it.
C14_ResolverStable ==
    /\ [](\A i, j \in 1..Len(calls) :
             (i < j /\ SameKeyCalls(i, j)) => calls[i].out = calls[j].out)
    /\ [][\A p \in Processors :
            (Len(calls') > Len(calls) /\ calls'[Len(calls')].fn # "clear_cache") =>
               \A key \in DOMAIN resolver[p].cache :
                  /\ key \in DOMAIN resolver'[p].cache
                  /\ resolver'[p].cache[key] = resolver[p].cache[key]]_vars

\* A key was resolved, then another key on the same resolver, then the
\* first key again, with the identifier of the first call.
C14_Witness ==
    /\ Len(calls) = MaxCalls
    /\ SameKeyCalls(1, MaxCalls)
    /\ calls[2].fn = "resolve" /\ calls[2].on = calls[1].on
    /\ calls[2].args # calls[1].args
    /\ calls[1].out = calls[MaxCalls].out
    /\ calls[2].out # calls[1].out

\* A po_number is present in a field if the field, cleaned, is a string
\* that is not empty.
Present(opt) == CleanString(opt, PoNumberMaxLength) # None

\* C15: the mapper builds the PO header exactly if a po_number is present
\* in the header or on one of the lines, and the po_number of the header it
\* builds is the cleaned po_number of the header or of a line.
C15_PoHeaderIffPoNumber ==
    \A i \in 1..Len(calls) :
       calls[i].fn = "_extract_po_number" =>
          LET static_po == calls[i].args[1]
              line_pos == calls[i].args[2]
              inputs == {ExtractFirst(static_po)} \cup {line_pos[k] : k \in 1..Len(line_pos)}
          IN  /\ BuildsPoHeader(calls[i].out) <=> \E opt \in inputs : Present(opt)
              /\ BuildsPoHeader(calls[i].out) =>
                    \E opt \in inputs :
                       calls[i].out = CleanString(opt, PoNumberMaxLength)

PoTables == {"po_header", "po_line", "po_condition"}

PoStatements == {"po_lookup", "po_first_line", "po_header", "po_line", "po_condition"}

\* C16: for a document without a po_number the mapping has no PO header, no
\* PO line and no PO condition, and a GRN header with one GRN line per line
\* of the document; the run is never at the PO lookup or at an insert into a
\* PO table, never at an ensure call for cost center, profit center,
\* project, plant or tax rate, has ensured none of them, has written no row
\* of a PO table, and none of its steps changes a PO table or the master
\* data of these kinds.
C16_NoPoNothingOnPoTables ==
    /\ [](\A r \in Runs :
            (Started(r) /\ doc[r].po = 0) =>
               /\ ~ents[r].has_po
               /\ ents[r].po_header.id = NoId
               /\ ents[r].po_lines = <<>>
               /\ ents[r].po_conditions = <<>>
               /\ ents[r].grn_header.id = EntityId("grn_header", r, 0)
               /\ Len(ents[r].grn_lines) = Len(doc[r].lines)
               /\ pc[r].at \notin PoStatements
               /\ Active(r) => StatementName(ents[r], pc[r]) \notin PoMasterKinds
               /\ KindsEnsured(r) \cap PoMasterKinds = {}
               /\ \A tbl \in PoTables : RowsOf(db, tbl, r) = {}
               /\ results[r].po_header_id = NoId
               /\ results[r].po_lines_count = 0
               /\ results[r].po_conditions_count = 0)
    /\ [][\A r \in Runs :
            (Active(r) /\ doc[r].po = 0 /\ pc'[r] # pc[r]) =>
               /\ \A tbl \in PoTables : db'[tbl] = db[tbl]
               /\ \A kind \in PoMasterKinds : db'.master[kind] = db.master[kind]]_vars

\* A run of src/temp.py for a document of MaxLines lines without a
\* po_number has completed, after a run that stored a PO.
C16_Witness ==
    \E r \in Runs :
       /\ service[r] = "temp"
       /\ pc[r].at = "done"
       /\ doc[r].po = 0
       /\ Len(doc[r].lines) = MaxLines
       /\ Cardinality(RowsOf(db, "grn_line", r)) = MaxLines
       /\ db.po_header # {}

\* The (type, rate) pair of a condition.
TypeAndRate(cond) == <<cond.s_condition_type, cond.s_rate>>

\* The places of a document where the pair occurs: 1, 2, 3 for the header's
\* IGST, CGST, SGST, and 3 + k for the k-th line.
Occurrences(d, pair) ==
    {t \in 1..3 : TaxTypes[t] = pair[1] /\ ExtractTaxRate(ExtractFirst(d.static[pair[1]])) = pair[2]}
    \cup {3 + k : k \in {j \in 1..Len(d.lines) : ExtractTaxRate(d.lines[j][pair[1]]) = pair[2]}}

FirstOccurrence(d, pair) ==
    CHOOSE n \in Occurrences(d, pair) : \A o \in Occurrences(d, pair) : n <= o

\* Every pair with a positive rate that occurs in a document.
PositivePairs(d) ==
    {pair \in {<<TaxTypes[t], ExtractTaxRate(Some(str))>> : t \in 1..3, str \in RateStrings} :
        pair[2] > 0 /\ Occurrences(d, pair) # {}}

\* C17: the conditions mapped for a document are one condition for every
\* (type, rate) pair with a positive normalized rate that occurs in the
\* header or on a line, no two of them with the same pair, in the order of
\* the pairs' first occurrences (header IGST, CGST, SGST, then the lines in
\* input order); no condition has rate 0.
C17_ConditionsUnique ==
    \A i \in 1..Len(calls) :
       calls[i].fn = "_create_po_conditions" =>
          LET d == calls[i].args
              out == calls[i].out
          IN  /\ \A a, b \in 1..Len(out) : a # b => TypeAndRate(out[a]) # TypeAndRate(out[b])
              /\ {TypeAndRate(out[a]) : a \in 1..Len(out)} = PositivePairs(d)
              /\ \A a, b \in 1..Len(out) :
                    a < b => FirstOccurrence(d, TypeAndRate(out[a]))
                             <= FirstOccurrence(d, TypeAndRate(out[b]))
              /\ \A a \in 1..Len(out) : out[a].s_rate > 0

\* The header gives IGST "18%", the first line IGST "0.18" and CGST "0", the
\* second line IGST "5": the conditions are IGST 18.0 and IGST 5.0.
C17_Witness ==
    /\ Len(calls) = 1
    /\ calls[1].fn = "_create_po_conditions"
    /\ calls[1].args.static["IGST"] = Some(<<<<"1", "8", "%">>>>)
    /\ Len(calls[1].args.lines) = 2
    /\ calls[1].args.lines[1]["IGST"] = Some(<<"0", ".", "1", "8">>)
    /\ calls[1].args.lines[1]["CGST"] = Some(<<"0">>)
    /\ calls[1].args.lines[2]["IGST"] = Some(<<"5">>)
    /\ calls[1].out = <<[s_condition_type |-> "IGST", s_rate |-> 1800],
                        [s_condition_type |-> "IGST", s_rate |-> 500]>>

\* C18: a mapping of a document with n lines returns n GRN lines and, if it
\* builds a PO, n PO lines; the k-th PO line has line number 10 k and the
\* item of the k-th input line, the k-th GRN line is the k-th of its GRN and
\* has the item of the k-th input line, which is the item of the k-th PO
\* line; lines with different items have different item references.
C18_LinesOneToOne ==
    \A i \in 1..Len(calls) :
       calls[i].fn = "map_to_database_models" =>
          LET d == calls[i].args
              e == calls[i].out
              item(k) == resolver[calls[i].on].cache[ItemKey(d.lines[k])]
          IN  /\ Len(e.grn_lines) = Len(d.lines)
              /\ Len(e.item_info) = Len(d.lines)
              /\ Len(e.po_lines) = IF d.po # 0 THEN Len(d.lines) ELSE 0
              /\ \A k \in 1..Len(d.lines) :
                    /\ e.grn_lines[k].id = EntityId("grn_line", i, k)
                    /\ e.grn_lines[k].s_item_ref = item(k)
                    /\ e.item_info[k].hsn_code = d.lines[k]
                    /\ d.po # 0 =>
                          /\ e.po_lines[k].id = EntityId("po_line", i, k)
                          /\ e.po_lines[k].s_line_number = k * 10
                          /\ e.po_lines[k].s_item_ref = item(k)
                          /\ e.po_lines[k].s_item_ref = e.grn_lines[k].s_item_ref
                    /\ \A j \in 1..Len(d.lines) :
                          d.lines[j] # d.lines[k] =>
                             e.grn_lines[j].s_item_ref # e.grn_lines[k].s_item_ref

\* A document with a PO and MaxLines lines of different items was mapped,
\* after a document whose first line has the item of its last line.
C18_Witness ==
    \E i \in 1..Len(calls) :
       /\ i > 1
       /\ calls[i].fn = "map_to_database_models"
       /\ calls[i].on = calls[1].on
       /\ calls[i].args.po # 0
       /\ Len(calls[i].args.lines) = MaxLines
       /\ Len(calls[1].args.lines) > 0
       /\ calls[i].args.lines[1] # calls[i].args.lines[MaxLines]
       /\ calls[1].args.lines[1] = calls[i].args.lines[MaxLines]
       /\ calls[i].out.grn_lines[MaxLines].s_item_ref = calls[1].out.grn_lines[1].s_item_ref
       /\ Len(calls[i].out.po_lines) = MaxLines

IdGenerators ==
    {"generate_po_id", "generate_po_line_id", "generate_po_condition_id",
     "generate_grn_id", "generate_grn_line_id", "generate_batch_number"}

\* C19: two calls of the same identifier generator with the same arguments
\* have returned the same identifier, whatever the clock and the random
\* source were at each call and whatever was called before.
C19_IdsDeterministic ==
    \A i, j \in 1..Len(calls) :
       (/\ calls[i].fn \in IdGenerators
        /\ calls[i].fn = calls[j].fn
        /\ calls[i].args = calls[j].args)
       => calls[i].out = calls[j].out

\* C20: the GRN numbers of the mapping calls made so far, whichever mappers
\* made them, increase strictly in the order of the calls; every mapping
\* call leaves the counter higher than it found it, and no step lowers it.
C20_GrnNumbersIncrease ==
    /\ [](\A i, j \in 1..Len(calls) :
             (/\ i < j
              /\ calls[i].fn = "map_to_database_models"
              /\ calls[j].fn = "map_to_database_models")
             => calls[i].out.grn_header.s_grn_number < calls[j].out.grn_header.s_grn_number)
    /\ [](\A i \in 1..Len(calls) : calls[i].out.grn_header.s_grn_number < grnCounter)
    /\ [][/\ grnCounter' >= grnCounter
          /\ Len(calls') > Len(calls) => grnCounter' > grnCounter]_vars

\* Two mappers have mapped one document each.
C20_Witness ==
    /\ Len(calls) = MaxRuns
    /\ calls[1].on # calls[MaxRuns].on
    /\ calls[1].out.grn_header.s_grn_number # calls[MaxRuns].out.grn_header.s_grn_number
    /\ grnCounter = MaxRuns

(***************************************************************************)
(* C21.                                                                    *)
(***************************************************************************)
\* What the mapper returned to run r: the resolver's cache keeps every
\* identifier it has handed out, and the r-th mapping call draws the r-th
\* value of the GRN counter.
MappedFor(r) == MappedEntities(resolver[proc[r]], doc[r], r, r - 1)

\* The rows run r has written are the entities of run r.
WrittenAsHeld(r) ==
    /\ \A row \in db.po_header : row.id[2] = r => row = ents[r].po_header
    /\ \A row \in db.po_line : row.id[2] = r =>
            \E k \in DOMAIN ents[r].po_lines : row = ents[r].po_lines[k]
    /\ \A row \in db.po_condition : row.id[2] = r =>
            \E k \in DOMAIN ents[r].po_conditions : row = ents[r].po_conditions[k]
    /\ \A row \in db.grn_header : row.id[2] = r => row = ents[r].grn_header
    /\ \A row \in db.grn_line : row.id[2] = r =>
            \E k \in DOMAIN ents[r].grn_lines : row = ents[r].grn_lines[k]

\* The PO header of run r is the mapped one but for its tax-rate reference,
\* which is the mapped one or the identifier ensure_tax_rate returned.
PoHeaderAsMapped(r) ==
    ents[r].has_po =>
        /\ ents[r].po_header =
              [MappedFor(r).po_header EXCEPT !.s_tax_rate_ref = ents[r].po_header.s_tax_rate_ref]
        /\ \/ ents[r].po_header.s_tax_rate_ref = MappedFor(r).po_header.s_tax_rate_ref
           \/ <<"tax_rate", ents[r].po_header.s_tax_rate_ref>> \in ensured[r]

\* C21 as stated: from the end of mapping on, the entities of a run are the
\* mapped ones in every field but the PO header's tax-rate reference, the
\* GRN header's s_po_line_ref included, and the rows written are the
\* entities.
C21_OnlyTaxRateRefChanges ==
    \A r \in Runs :
        pc[r].at # "idle" =>
            /\ PoHeaderAsMapped(r)
            /\ ents[r].po_lines = MappedFor(r).po_lines
            /\ ents[r].po_conditions = MappedFor(r).po_conditions
            /\ ents[r].grn_header = MappedFor(r).grn_header
            /\ ents[r].grn_lines = MappedFor(r).grn_lines
            /\ WrittenAsHeld(r)

\* The GRN header's s_po_line_ref was replaced by the id of the first line
\* (by line number) of the PO found in storage.
PoLineRefOfExistingPo(r) ==
    /\ results[r].po_exists = "true"
    /\ PoLinesOf(results[r].po_header_id) # {}
    /\ ents[r].grn_header.s_po_line_ref =
          FirstByLineNumber(PoLinesOf(results[r].po_header_id)).id

\* C21, amended: from the end of mapping on, the entities of a run are the
\* mapped ones in every field but two: the PO header's tax-rate reference,
\* set to the identifier ensure_tax_rate returned, and, when the PO was found
\* in storage and its first-line lookup returned a row, the GRN header's
\* s_po_line_ref, set to that row's id; the rows written are the entities.
C21_OnlyTaxRateAndPoLineRefChange ==
    \A r \in Runs :
        pc[r].at # "idle" =>
            /\ PoHeaderAsMapped(r)
            /\ ents[r].po_lines = MappedFor(r).po_lines
            /\ ents[r].po_conditions = MappedFor(r).po_conditions
            /\ ents[r].grn_header =
                  [MappedFor(r).grn_header EXCEPT !.s_po_line_ref = ents[r].grn_header.s_po_line_ref]
            /\ \/ ents[r].grn_header.s_po_line_ref = MappedFor(r).grn_header.s_po_line_ref
               \/ PoLineRefOfExistingPo(r)
            /\ ents[r].grn_lines = MappedFor(r).grn_lines
            /\ WrittenAsHeld(r)

\* A run for a stored PO has written its GRN header with the stored PO's
\* first line in place of the mapped reference, after ensure_tax_rate
\* returned.
C21_Witness ==
    \E r \in Runs :
        /\ pc[r].at = "done"
        /\ PoLineRefOfExistingPo(r)
        /\ ents[r].grn_header.s_po_line_ref # MappedFor(r).grn_header.s_po_line_ref
        /\ ents[r].grn_header \in db.grn_header
        /\ <<"tax_rate", ents[r].po_header.s_tax_rate_ref>> \in ensured[r]

(***************************************************************************)
(* C22.                                                                    *)
(***************************************************************************)
\* Some line's description contains, in either case, one of the keywords.
SomeLineHas(lines, keywords) ==
    \E k \in DOMAIN lines :
        /\ lines[k] # <<>>
        /\ \E keyword \in keywords : Contains(Lower(lines[k][1]), keyword)

\* The lines in the opposite order.
Reversed(lines) == [k \in DOMAIN lines |-> lines[Len(lines) + 1 - k]]

\* C22: _determine_po_type returns SERVICE if some line's description
\* contains a service keyword, otherwise CAPEX if some line's description
\* contains a capex keyword, otherwise MATERIAL; the result is the same for
\* the lines in the opposite order, and MATERIAL for no lines.
C22_PoTypeClassification ==
    \A i \in 1..Len(calls) :
        calls[i].fn = "_determine_po_type" =>
            /\ calls[i].out =
                  IF SomeLineHas(calls[i].args, ServiceKeywords) THEN "SERVICE"
                  ELSE IF SomeLineHas(calls[i].args, CapexKeywords) THEN "CAPEX"
                  ELSE "MATERIAL"
            /\ DeterminePoType(Reversed(calls[i].args)) = calls[i].out
            /\ calls[i].args = <<>> => calls[i].out = "MATERIAL"

\* A document with a capex keyword on its first line and a service keyword
\* on a later one was classified SERVICE.
C22_Witness ==
    \E i \in 1..Len(calls) :
        /\ calls[i].fn = "_determine_po_type"
        /\ Len(calls[i].args) >= 2
        /\ SomeLineHas(<<calls[i].args[1]>>, CapexKeywords)
        /\ ~SomeLineHas(<<calls[i].args[1]>>, ServiceKeywords)
        /\ SomeLineHas(Tail(calls[i].args), ServiceKeywords)
        /\ calls[i].out = "SERVICE"

(***************************************************************************)
(* C23.                                                                    *)
(***************************************************************************)
\* The positions of str that hold a digit, in order.
DigitPositions(str) == {k \in DOMAIN str : IsDigit(str[k])}

\* The position of the j-th digit of str.
NthDigit(str, j) ==
    CHOOSE k \in DigitPositions(str) :
        Cardinality({m \in DigitPositions(str) : m < k}) = j - 1

\* out[j] is the j-th digit of str, for every j up to n.
FirstDigitsAre(str, out, n) == \A j \in 1..n : out[j] = str[NthDigit(str, j)]

\* C23: extract_hsn_code returns digits only, 6 to 8 of them: "999999" for
\* an absent or empty input and for an input without a digit; otherwise the
\* input's digits in order, followed by zeros up to 6 if they are fewer than
\* 6, and only the first 8 of them if they are more than 8.
C23_HsnCodeNormalized ==
    \A i \in 1..Len(calls) :
        calls[i].fn = "extract_hsn_code" =>
            LET hsn == calls[i].args
                out == calls[i].out
                n == IF hsn = None THEN 0 ELSE Cardinality(DigitPositions(hsn[1]))
            IN  /\ \A j \in DOMAIN out : IsDigit(out[j])
                /\ Len(out) \in 6..8
                /\ n = 0 => out = UnknownHsn
                /\ n > 0 =>
                      /\ Len(out) = (IF n < 6 THEN 6 ELSE IF n > 8 THEN 8 ELSE n)
                      /\ FirstDigitsAre(hsn[1], out, IF n > 8 THEN 8 ELSE n)
                      /\ \A j \in (n + 1)..Len(out) : out[j] = "0"

\* A string with nine digits was cut to its first eight.
C23_Witness ==
    \E i \in 1..Len(calls) :
        /\ calls[i].fn = "extract_hsn_code"
        /\ calls[i].args # None
        /\ Cardinality(DigitPositions(calls[i].args[1])) = 9
        /\ calls[i].out = SubSeq(calls[i].args[1], 1, 8)

(***************************************************************************)
(* C24.                                                                    *)
(***************************************************************************)
\* The step is a failure of the executor in run r's PO lookup.
PoLookupFails(r) == pc[r].at = "po_lookup" /\ errorsInjected' # errorsInjected

\* Run r has written its PO header, PO lines and PO conditions.
PoWritten(r) ==
    /\ ents[r].po_header \in db.po_header
    /\ \A k \in DOMAIN ents[r].po_lines : ents[r].po_lines[k] \in db.po_line
    /\ \A k \in DOMAIN ents[r].po_conditions : ents[r].po_conditions[k] \in db.po_condition

\* C24: a failure of the executor in the PO lookup raises nothing and
\* records no error: the run's next statement is the insert of its PO
\* header, whether or not a header with its po_number is stored; and a run
\* that left the PO branch as for a new PO has written its PO header, lines
\* and conditions.
C24_PoLookupFailureSwallowed ==
    /\ [][\A r \in Runs :
             PoLookupFails(r) =>
                /\ pc'[r] = At("po_header")
                /\ raised'[r] = FALSE
                /\ results'[r] = results[r]
                /\ db' = db]_vars
    /\ [](\A r \in Runs :
             (/\ service[r] = "temp"
              /\ pc[r].at \in {"grn_header", "grn_line", "done"}
              /\ results[r].po_exists = "false")
             => PoWritten(r))

\* The lookup of a run failed while a PO header with its po_number was
\* stored, and the run has written a second PO header with that number, its
\* lines and its conditions.
C24_Witness ==
    \E r \in Runs :
        /\ service[r] = "temp"
        /\ pc[r].at = "done"
        /\ errorsInjected = 1
        /\ results[r].po_exists = "false"
        /\ PoWritten(r)
        /\ Len(ents[r].po_conditions) > 0
        /\ \E row \in db.po_header :
              /\ row.s_po_number = ents[r].po_header.s_po_number
              /\ row.id # ents[r].po_header.id
              /\ row.id[2] < r
        /\ \A q \in Runs : q < r => service[q] = "temp" /\ pc[q].at = "done"

(***************************************************************************)
(* C25.                                                                    *)
(***************************************************************************)
\* C25: the s_po_line_ref of every GRN header row written for a document
\* with a po_number is the id of a stored PO line row (rows are never
\* deleted: a row stored when the GRN header was written is stored now).
C25_GrnPoLineRefStored ==
    \A r \in Runs :
        \A row \in db.grn_header :
            (row.id[2] = r /\ ents[r].has_po)
            => \E line \in db.po_line : line.id = row.s_po_line_ref

(***************************************************************************)
(* C26.                                                                    *)
(***************************************************************************)
\* Run r is inside an ensure call, about to issue a statement of it.
InEnsureCall(r) == pc[r].at \in {"ensure_check", "ensure_insert"}

\* The key of the ensure call run r is in.
EnsureKey(r) == CacheKey(EnsureOps(ents[r])[pc[r].i])

\* The step completes run r's ensure call: its check returns a row, or its
\* insert adds the row.
EnsureCompletes(r) ==
    /\ InEnsureCall(r)
    /\ ~raised'[r]
    /\ \/ /\ pc[r].at = "ensure_check"
          /\ \E row \in db.master[EnsureKey(r)[1]] : row.id = EnsureKey(r)[2]
       \/ /\ pc[r].at = "ensure_insert"
          /\ \E row \in db'.master[EnsureKey(r)[1]] \ db.master[EnsureKey(r)[1]] :
                row.id = EnsureKey(r)[2]

\* C26: _inserted_refs of a MasterDataService gets an entry only in a step
\* in which an ensure call of a run on that instance finds the row or
\* completes its insert, and the entry is for that call's key and that
\* row's id, so that every entry names a stored row; a step in which a
\* statement fails changes no _inserted_refs; and no run is inside an ensure
\* call whose key is in its service's _inserted_refs: such a call returns
\* without a statement.
C26_InsertedRefs ==
    /\ [][\A p \in Processors :
             inserted_refs'[p] # inserted_refs[p] =>
                \E r \in Runs :
                    /\ proc[r] = p
                    /\ EnsureCompletes(r)
                    /\ inserted_refs'[p] = (EnsureKey(r) :> EnsureKey(r)[2]) @@ inserted_refs[p]]_vars
    /\ [](\A p \in Processors :
             \A key \in DOMAIN inserted_refs[p] :
                \E row \in db.master[key[1]] : row.id = key[2] /\ inserted_refs[p][key] = row.id)
    /\ [][(errorsInjected' # errorsInjected \/ raised' # raised)
             => inserted_refs' = inserted_refs]_vars
    /\ [](\A r \in Runs :
             InEnsureCall(r) => EnsureKey(r) \notin DOMAIN inserted_refs[proc[r]])

\* After a run whose ensure call failed, a second run on the same service
\* passed the ensure calls the first had completed without a statement, and
\* is inside the call that had failed, whose key is in no _inserted_refs.
C26_Witness ==
    \E r1, r2 \in Runs :
        /\ r1 < r2
        /\ proc[r1] = proc[r2]
        /\ raised[r1]
        /\ Len(results[r1].errors) = 1
        /\ results[r1].errors[1].op \in {"check", "insert"}
        /\ results[r1].errors[1].tbl \in MasterKinds
        /\ pc[r2] = AtI("ensure_check", results[r1].errors[1].i)
        /\ pc[r2].i > 1
        /\ Cardinality(ensured[r2]) = pc[r2].i - 1
        /\ EnsureKey(r2) \notin DOMAIN inserted_refs[proc[r2]]
        /\ \A op \in {EnsureOps(ents[r2])[k] : k \in 1..(pc[r2].i - 1)} :
              CacheKey(op) \in DOMAIN inserted_refs[proc[r2]]

(***************************************************************************)
(* C27.                                                                    *)
(***************************************************************************)
\* The lines mapped so far: the call and the position in its document.
MappedLines ==
    {[i |-> i, k |-> k] :
        i \in {j \in 1..Len(calls) : calls[j].fn = "map_items"}, k \in 1..MaxLines}

LineAt(l) == calls[l.i].args[l.k]
ItemAt(l) == calls[l.i].out[l.k]
Exists(l) == l.k <= Len(calls[l.i].args)

\* The line has no HSN code: none, an empty one or one without a digit.
NoHsn(line) == line.hsn_number = None \/ DigitPositions(line.hsn_number[1]) = {}

\* C27: two lines mapped by the same mapper whose normalized HSN codes are
\* equal have the same item_ref, whatever their descriptions; a line without
\* an HSN code has the item_ref of the lines with the code "999999"; and
\* storage holds at most one item row for an item_ref, with the description
\* of the first ensured line that has this item_ref.
C27_ItemRefByHsnCode ==
    /\ \A a, b \in {l \in MappedLines : Exists(l)} :
          calls[a.i].on = calls[b.i].on =>
             /\ ExtractHsnCode(LineAt(a).hsn_number) = ExtractHsnCode(LineAt(b).hsn_number)
                   => ItemAt(a).item_ref = ItemAt(b).item_ref
             /\ (NoHsn(LineAt(a)) /\ LineAt(b).hsn_number = Some(UnknownHsn))
                   => ItemAt(a).item_ref = ItemAt(b).item_ref
    /\ \A row, other \in db.master["item"] : row.id = other.id => row = other
    /\ \A row \in db.master["item"] :
          \E a \in {l \in MappedLines : Exists(l)} :
             /\ ItemAt(a).item_ref = row.id
             /\ row.description = DescriptionOrUnknown(LineAt(a).description)
             /\ \A b \in {l \in MappedLines : Exists(l)} :
                   ItemAt(b).item_ref = row.id => (a.i < b.i \/ (a.i = b.i /\ a.k <= b.k))

\* One mapper mapped a line without an HSN code and, in a later document, a
\* line with the code "999999" and another description; both were ensured
\* and storage holds one item row, with the first description.
C27_Witness ==
    /\ Len(calls) = 2 * MaxItemCalls
    /\ calls[Len(calls)].fn = "ensure_items"
    /\ \E a, b \in {l \in MappedLines : Exists(l)} :
          /\ a.i < b.i
          /\ calls[a.i].on = calls[b.i].on
          /\ LineAt(a).hsn_number = None
          /\ LineAt(b).hsn_number = Some(UnknownHsn)
          /\ LineAt(a).description = Some(<<"A">>)
          /\ LineAt(b).description = Some(<<"B">>)
          /\ ItemAt(a).item_ref = ItemAt(b).item_ref
          /\ db.master["item"] = {[id |-> ItemAt(a).item_ref, key |-> UnknownHsn,
                                   description |-> <<"A">>]}

(***************************************************************************)
(* C28.                                                                    *)
(***************************************************************************)
\* C28: the conditions mapped for one document, whatever its PO, have
\* pairwise distinct s_po_condition_id values.
C28_ConditionIdsDistinct ==
    \A i \in 1..Len(calls) :
        calls[i].fn = "_create_po_conditions" =>
            \A po_id \in PoIds, env \in Envs :
                \A a, b \in DOMAIN calls[i].out :
                    a # b => PoConditionIdOf(po_id, calls[i].out[a], env)
                             # PoConditionIdOf(po_id, calls[i].out[b], env)

(***************************************************************************)
(* C29.                                                                    *)
(***************************************************************************)
\* C29: two PO line ids generated from the po_ids of two different
\* po_numbers differ, whatever the line numbers.
C29_PoLineIdsOfDistinctPos ==
    \A i, j \in 1..Len(calls) :
        (/\ calls[i].fn = "generate_po_line_id"
         /\ calls[j].fn = "generate_po_line_id"
         /\ \E p, q \in IdPoNumbers :
               /\ p # q
               /\ \E env \in Envs : calls[i].args[1] = GeneratePoId(p, env)
               /\ \E env \in Envs : calls[j].args[1] = GeneratePoId(q, env))
        => calls[i].out # calls[j].out

(***************************************************************************)
(* C30.                                                                    *)
(***************************************************************************)
\* The entries of the batch's invoices list with status "success".
SuccessEntries ==
    {k \in 1..Len(batch.results.invoices) : batch.results.invoices[k].status = "success"}

\* C30: whenever the batch call is suspended or has returned, successful +
\* failed is the number of invoices processed and the length of the invoices
\* list, successful is the number of entries with status "success" and
\* failed the number of the others; when it has returned, successful +
\* failed = total = the number of input invoices.
C30_BatchCounts ==
    /\ batch.at # "none" =>
          /\ batch.results.successful + batch.results.failed = Len(batch.results.invoices)
          /\ Len(batch.results.invoices) = Cardinality({r \in Runs : pc[r].at = "returned"})
          /\ batch.results.successful = Cardinality(SuccessEntries)
          /\ batch.results.failed = Len(batch.results.invoices) - Cardinality(SuccessEntries)
    /\ batch.at = "returned" =>
          /\ batch.results.successful + batch.results.failed = batch.results.total
          /\ batch.results.total = Len(batch.invoice_list)

\* A batch of MaxRuns well-formed invoices has returned with every invoice
\* counted.
C30_Witness ==
    /\ batch.at = "returned"
    /\ Len(batch.invoice_list) = MaxRuns
    /\ \A k \in 1..MaxRuns : batch.invoice_list[k].shape = "ok"
    /\ batch.results.successful + batch.results.failed = MaxRuns
    /\ Len(batch.results.invoices) = MaxRuns

====
